---------------------------- MODULE Spec2Model ----------------------------
(***************************************************************************)
(* A model of the traffic-replay recording pipeline: the packet decoder    *)
(* (pkg/reader/packet.go), the recording readers (pkg/reader, the single   *)
(* file reader and the RecordingSet), the wire inspector and classifier,   *)
(* the filter (cmd/filter/main.go) and the replay loops (cmd/replay).      *)
(*                                                                         *)
(* Bytes are naturals 0..255, Go strings and []byte are sequences of       *)
(* bytes.  Every program below reads its packets through ReadPacket, from  *)
(* the bytes of a file and a read position.                                *)
(***************************************************************************)
EXTENDS Integers, Sequences, FiniteSets, TLC

VARIABLES
    prog,       \* which program runs: "decode", "filter", "replay", "set"
    pc,         \* position of the program's loop; RecordingSet: the last call
    data,       \* bytes of the file the (current) RecordingReader reads
    pos,        \* bytes of data the reader has consumed
    retPkt,     \* packet returned by the last call: <<>> (nil) or <<p>>
    retErr,     \* error returned by the last call
    got,        \* packets returned so far, in order
    dir,        \* RecordingSet: the directory, file name -> bytes of the file
    files,      \* RecordingSet.files
    fileIdx,    \* RecordingSet.fileIdx
    current,    \* RecordingSet.current: "nil" or "open" (its reader is data, pos)
    rdClosed,   \* RecordingReader.closed of the current reader
    rsClosed,   \* RecordingSet.closed
    config,     \* filter: the FilterConfig
    stats,      \* filter: the FilterStats
    output,     \* filter: bytes of the output file
    opts,       \* replay: the options of the command line
    counts,     \* replay: totalPackets, skippedPackets, successfulOps, failedOps
    lastOffset, \* replay: lastOffset
    firstOp,    \* replay: firstOp
    now,        \* replay: the clock, in microseconds since startTime
    exitCode,   \* replay: exit status of the process, -1 while it runs
    wire,       \* replay: the messages handed to conn.Write, in order
    log         \* replay: one record for each operation attempted

readerVars == <<data, pos, retPkt, retErr, got>>
setVars == <<dir, files, fileIdx, current, rdClosed, rsClosed>>

filterVars == <<config, stats, output>>

replayVars == <<opts, counts, lastOffset, firstOp, now, exitCode, wire, log>>

vars == <<prog, pc, data, pos, retPkt, retErr, got,
          dir, files, fileIdx, current, rdClosed, rsClosed,
          config, stats, output,
          opts, counts, lastOffset, firstOp, now, exitCode, wire, log>>

\* The parts of the state a program does not use.
NoSet ==
    /\ dir = <<>>
    /\ files = <<>>
    /\ fileIdx = -1
    /\ current = "nil"
    /\ rsClosed = FALSE

NoFilter ==
    /\ config = <<>>
    /\ stats = <<>>
    /\ output = <<>>

NoReplay ==
    /\ opts = <<>>
    /\ counts = <<>>
    /\ lastOffset = 0
    /\ firstOp = TRUE
    /\ now = 0
    /\ exitCode = -1
    /\ wire = <<>>
    /\ log = <<>>

-----------------------------------------------------------------------------
(* Bounds of the model. *)

\* frames of a generated recording file
MaxFrames == 2

\* calls of RecordingSet.Next made after it has reported the end of the set
MaxCallsAfterEnd == 2

\* whole packets of a recording given to the filter
MaxFilterPackets == 2

\* whole packets of a recording given to the replay
MaxReplayPackets == 2

-----------------------------------------------------------------------------
(* Errors.  A Go error is modelled by its message and the error it wraps;  *)
(* the program compares errors with ==, so io.EOF is only the bare value.  *)

NilErr == [msg |-> "", cause |-> "nil"]
EOF == [msg |-> "", cause |-> "EOF"]
ErrUnexpectedEOF == [msg |-> "", cause |-> "ErrUnexpectedEOF"]
ErrorfBare(m, e) == IF e = NilErr THEN [msg |-> m, cause |-> "new"] ELSE e
Errorf(m, e) == [msg |-> m, cause |-> IF e = NilErr THEN "new" ELSE e.cause]

-----------------------------------------------------------------------------
(* Little-endian integers. *)

RECURSIVE LEValue(_)
LEValue(bs) == IF bs = <<>> THEN 0 ELSE bs[1] + 256 * LEValue(Tail(bs))

RECURSIVE LEBytes(_, _)
LEBytes(v, n) == IF n = 0 THEN <<>> ELSE <<v % 256>> \o LEBytes(v \div 256, n - 1)

RECURSIVE Flatten(_)
Flatten(ss) == IF ss = <<>> THEN <<>> ELSE ss[1] \o Flatten(Tail(ss))

-----------------------------------------------------------------------------
(* The packet decoder. *)

EventTypeRegular == 0
MinPacketSize == 29
MaxSessionMetadata == 10000

\* io.ReadFull on the buffered reader: n bytes from position p of d.
ReadFull(d, p, n) ==
    LET avail == Len(d) - p IN
    IF n = 0 THEN [err |-> NilErr, bytes |-> <<>>, pos |-> p]
    ELSE IF avail = 0 THEN [err |-> EOF, bytes |-> <<>>, pos |-> p]
    ELSE IF avail < n THEN [err |-> ErrUnexpectedEOF, bytes |-> <<>>, pos |-> Len(d)]
    ELSE [err |-> NilErr, bytes |-> SubSeq(d, p + 1, p + n), pos |-> p + n]

\* The session-metadata loop with a read that takes nothing from a source
\* that ends before the NUL.
ReadSessionMetadataUnread(d, p) ==
    LET stops == {i \in (p + 1)..Len(d) : d[i] = 0}
        nul == IF stops = {} THEN Len(d) + 1
               ELSE CHOOSE i \in stops : \A j \in stops : i <= j
    IN  IF stops = {}
        THEN [err |-> Errorf("failed to read session metadata", EOF),
              bytes |-> <<>>, pos |-> p]
        ELSE [err |-> NilErr, bytes |-> SubSeq(d, p + 1, nul - 1), pos |-> nul]

\* The session-metadata loop: bytes up to the NUL, one byte per read.
ReadSessionMetadata(d, p) ==
    LET stops == {i \in (p + 1)..Len(d) : d[i] = 0}
        nul == IF stops = {} THEN Len(d) + 1
               ELSE CHOOSE i \in stops : \A j \in stops : i <= j
        n == nul - 1 - p
    IN  IF n > MaxSessionMetadata
        THEN [err |-> Errorf("session metadata too long (>10KB)", NilErr),
              bytes |-> <<>>, pos |-> p + MaxSessionMetadata + 1]
        ELSE IF stops = {}
        THEN [err |-> Errorf("failed to read session metadata", EOF),
              bytes |-> <<>>, pos |-> Len(d)]
        ELSE [err |-> NilErr, bytes |-> SubSeq(d, p + 1, nul - 1), pos |-> nul]

\* Header size = 4 (size) + 8 (id) + len(session) + 1 (null) + 8 (offset) + 8 (order)
HeaderSizeNoNul(sessionLen) == 4 + 8 + sessionLen + 8 + 8
HeaderSize(sessionLen) == 4 + 8 + sessionLen + 1 + 8 + 8

Failed(e, p) == [packet |-> <<>>, err |-> e, pos |-> p]

ReadPacket(d, p) ==
    LET size == ReadFull(d, p, 4) IN
    IF size.err # NilErr THEN Failed(size.err, size.pos)
    ELSE IF LEValue(size.bytes) < MinPacketSize
    THEN Failed(Errorf("invalid packet size", NilErr), size.pos)
    ELSE
    LET id == ReadFull(d, size.pos, 8) IN
    IF id.err # NilErr THEN Failed(Errorf("failed to read session ID", id.err), id.pos)
    ELSE
    LET session == ReadSessionMetadata(d, id.pos) IN
    IF session.err # NilErr THEN Failed(session.err, session.pos)
    ELSE
    LET offset == ReadFull(d, session.pos, 8) IN
    IF offset.err # NilErr THEN Failed(Errorf("failed to read offset", offset.err), offset.pos)
    ELSE
    LET order == ReadFull(d, offset.pos, 8) IN
    IF order.err # NilErr THEN Failed(Errorf("failed to read order", order.err), order.pos)
    ELSE
    LET headerSize == HeaderSize(Len(session.bytes))
        messageSize == LEValue(size.bytes) - headerSize
    IN
    IF messageSize < 0 THEN Failed(Errorf("invalid message size", NilErr), order.pos)
    ELSE
    LET message == ReadFull(d, order.pos, messageSize) IN
    IF message.err # NilErr
    THEN Failed(Errorf("failed to read message data", message.err), message.pos)
    ELSE [packet |-> << [Size |-> LEValue(size.bytes),
                         EventType |-> EventTypeRegular,
                         SessionID |-> LEValue(id.bytes),
                         SessionMetadata |-> session.bytes,
                         Offset |-> LEValue(offset.bytes),
                         Order |-> LEValue(order.bytes),
                         Message |-> message.bytes] >>,
          err |-> NilErr,
          pos |-> message.pos]

-----------------------------------------------------------------------------
(* Recording files as the server writes them: frames of                    *)
(* size, id, session NUL, offset, order, message.                          *)

HeaderBytes(meta) == 4 + 8 + (Len(meta) + 1) + 8 + 8

\* A frame with a declared size, which a sound recording sets to its length.
FrameBytes(declared, id, meta, offset, order, message) ==
    LEBytes(declared, 4) \o LEBytes(id, 8) \o meta \o <<0>>
        \o LEBytes(offset, 8) \o LEBytes(order, 8) \o message

Frame(id, meta, offset, order, message) ==
    FrameBytes(HeaderBytes(meta) + Len(message), id, meta, offset, order, message)

SeqsUpTo(S, n) == UNION {[1..k -> S] : k \in 0..n}

-----------------------------------------------------------------------------
(* The decoder alone: ReadPacket called again and again on one byte source *)
(* (ReadPacketFromBytes and the TestReadPacket tests drive it this way).   *)

DecodeMetas == {<<>>, <<97, 98>>}
DecodeMessages == {<<>>, <<7, 8>>}

SoundFrames ==
    {Frame(1, m, 5, 1, msg) : m \in DecodeMetas, msg \in DecodeMessages}

\* Frames whose declared size is not their length.
DeclaredSizes == {0, 28, 29, 30, 32, 34}

UnsoundFrames ==
    {FrameBytes(s, 1, m, 5, 2, <<7, 8>>) : s \in DeclaredSizes, m \in DecodeMetas}

\* The prefixes of a frame, the empty one and the whole frame included.
Cuts(f) == {SubSeq(f, 1, k) : k \in 0..Len(f)}

\* Whole frames followed by one frame cut anywhere.
DecodeSources ==
    UNION {{Flatten(fs) \o c : fs \in SeqsUpTo(SoundFrames, MaxFrames - 1)} :
            c \in UNION {Cuts(f) : f \in SoundFrames \cup UnsoundFrames}}

DecodeInit ==
    /\ prog = "decode"
    /\ pc = "read"
    /\ data \in DecodeSources
    /\ pos = 0
    /\ retPkt = <<>>
    /\ retErr = NilErr
    /\ got = <<>>
    /\ rdClosed = FALSE
    /\ NoSet
    /\ NoFilter
    /\ NoReplay

\* One call of ReadPacket.
DecodeRead ==
    /\ prog = "decode"
    /\ pc = "read"
    /\ LET r == ReadPacket(data, pos) IN
        /\ pos' = r.pos
        /\ retPkt' = r.packet
        /\ retErr' = r.err
        /\ got' = got \o r.packet
        /\ pc' = IF r.err = NilErr THEN "read" ELSE "stopped"
    /\ UNCHANGED <<prog, data>>
    /\ UNCHANGED <<setVars, filterVars, replayVars>>


DecodeNext == DecodeRead

SpecDecode == DecodeInit /\ [][DecodeNext]_vars

\* The decoder on one frame whose session metadata is about as long as the
\* cap of ReadPacket, with its NUL or cut before it.
CapMargin == 3

LongMetadataLengths ==
    (MaxSessionMetadata - CapMargin)..(MaxSessionMetadata + 2 ^ 8)

LongFrame(n) == Frame(1, [i \in 1..n |-> 97], 5, 1, <<7, 8>>)

LongSources ==
    {LongFrame(n) : n \in LongMetadataLengths}
        \cup {SubSeq(LongFrame(n), 1, 4 + 8 + n) : n \in LongMetadataLengths}

LongMetadataInit ==
    /\ prog = "decode"
    /\ pc = "read"
    /\ data \in LongSources
    /\ pos = 0
    /\ retPkt = <<>>
    /\ retErr = NilErr
    /\ got = <<>>
    /\ rdClosed = FALSE
    /\ NoSet
    /\ NoFilter
    /\ NoReplay

SpecLongMetadata == LongMetadataInit /\ [][DecodeNext]_vars

-----------------------------------------------------------------------------
(* Strings (sequences of bytes) and their order. *)

HasPrefix(str, prefix) ==
    Len(str) >= Len(prefix) /\ SubSeq(str, 1, Len(prefix)) = prefix

HasSuffix(str, suffix) ==
    /\ Len(str) >= Len(suffix)
    /\ SubSeq(str, Len(str) - Len(suffix) + 1, Len(str)) = suffix

\* a < b for Go strings: bytewise, a proper prefix first.
RECURSIVE StringLess(_, _)
StringLess(a, b) ==
    IF b = <<>> THEN FALSE
    ELSE IF a = <<>> THEN TRUE
    ELSE IF a[1] # b[1] THEN a[1] < b[1]
    ELSE StringLess(Tail(a), Tail(b))

\* Shorter names first, names of one length bytewise.
ShorterOrLess(a, b) ==
    Len(a) < Len(b) \/ (Len(a) = Len(b) /\ StringLess(a, b))

\* the names sorted with shorter names first
RECURSIVE SortStringsByLength(_)
SortStringsByLength(S) ==
    IF S = {} THEN <<>>
    ELSE LET least == CHOOSE x \in S : \A y \in S \ {x} : ShorterOrLess(x, y)
         IN  <<least>> \o SortStringsByLength(S \ {least})

\* sort.Strings
RECURSIVE SortStrings(_)
SortStrings(S) ==
    IF S = {} THEN <<>>
    ELSE LET least == CHOOSE x \in S : \A y \in S \ {x} : StringLess(x, y)
         IN  <<least>> \o SortStrings(S \ {least})

-----------------------------------------------------------------------------
(* RecordingReader and RecordingSet. *)

DotBin == <<46, 98, 105, 110>>

\* filepath.Glob(dir/*.bin) over the names of a directory.
Glob(names) == {n \in names : HasSuffix(n, DotBin)}

\* RecordingReader.Next on the reader (d, p) with its closed flag.
ReaderNext(d, p, closed) ==
    IF closed THEN Failed(Errorf("reader is closed", NilErr), p)
    ELSE ReadPacket(d, p)

\* The loop of RecordingSet.Next: the state it leaves and what it returns.
RECURSIVE SetNextLoop(_, _, _, _, _, _, _)

\* A loop that starts again at the first file when the files are exhausted.
SetNextLoopRewinds(directory, fs, idx, cur, d, p, closed) ==
    IF cur = "nil"
    THEN IF idx + 1 >= Len(fs)
         THEN [fileIdx |-> -1, current |-> "nil", data |-> d, pos |-> p,
               rdClosed |-> closed, packet |-> <<>>, err |-> EOF]
         ELSE SetNextLoop(directory, fs, idx + 1, "open",
                          directory[fs[idx + 2]], 0, FALSE)
    ELSE LET r == ReaderNext(d, p, closed) IN
         IF r.err = EOF
         THEN SetNextLoop(directory, fs, idx, "nil", d, r.pos, TRUE)
         ELSE IF r.err # NilErr
         THEN [fileIdx |-> idx, current |-> "open", data |-> d, pos |-> r.pos,
               rdClosed |-> closed, packet |-> <<>>,
               err |-> Errorf("error reading from", r.err)]
         ELSE [fileIdx |-> idx, current |-> "open", data |-> d, pos |-> r.pos,
               rdClosed |-> closed, packet |-> r.packet, err |-> NilErr]

\* A loop that leaves the current file on every error of its reader.
SetNextLoopLeavesOnError(directory, fs, idx, cur, d, p, closed) ==
    IF cur = "nil"
    THEN IF idx + 1 >= Len(fs)
         THEN [fileIdx |-> idx + 1, current |-> "nil", data |-> d, pos |-> p,
               rdClosed |-> closed, packet |-> <<>>, err |-> EOF]
         ELSE SetNextLoop(directory, fs, idx + 1, "open",
                          directory[fs[idx + 2]], 0, FALSE)
    ELSE LET r == ReaderNext(d, p, closed) IN
         IF r.err # NilErr
         THEN SetNextLoop(directory, fs, idx, "nil", d, r.pos, TRUE)
         ELSE [fileIdx |-> idx, current |-> "open", data |-> d, pos |-> r.pos,
               rdClosed |-> closed, packet |-> r.packet, err |-> NilErr]

SetNextLoop(directory, fs, idx, cur, d, p, closed) ==
    IF cur = "nil"
    THEN IF idx + 1 >= Len(fs)
         THEN [fileIdx |-> idx + 1, current |-> "nil", data |-> d, pos |-> p,
               rdClosed |-> closed, packet |-> <<>>, err |-> EOF]
         ELSE SetNextLoop(directory, fs, idx + 1, "open",
                          directory[fs[idx + 2]], 0, FALSE)
    ELSE LET r == ReaderNext(d, p, closed) IN
         IF r.err = EOF
         THEN SetNextLoop(directory, fs, idx, "nil", d, r.pos, TRUE)
         ELSE IF r.err # NilErr
         THEN [fileIdx |-> idx, current |-> "open", data |-> d, pos |-> r.pos,
               rdClosed |-> closed, packet |-> <<>>,
               err |-> Errorf("error reading from", r.err)]
         ELSE [fileIdx |-> idx, current |-> "open", data |-> d, pos |-> r.pos,
               rdClosed |-> closed, packet |-> r.packet, err |-> NilErr]

\* The files of a generated directory.  File number f holds n whole frames,
\* the k-th with session id f and order k, and then the first `cut` bytes of
\* one more frame.
FileNames == << <<49, 46, 98, 105, 110>>,          \* "1.bin"
                <<49, 48, 46, 98, 105, 110>>,      \* "10.bin"
                <<50, 46, 98, 105, 110>>,          \* "2.bin"
                <<99, 46, 116, 120, 116>> >>       \* "c.txt"

StoredPacket(f, k) ==
    [Size |-> HeaderBytes(<<97, 98>>) + (IF k % 2 = 0 THEN 2 ELSE 0),
     EventType |-> EventTypeRegular,
     SessionID |-> f,
     SessionMetadata |-> <<97, 98>>,
     Offset |-> 10 * f + k,
     Order |-> k,
     Message |-> IF k % 2 = 0 THEN <<7, 8>> ELSE <<>>]

StoredFrame(f, k) ==
    LET q == StoredPacket(f, k)
    IN  Frame(q.SessionID, q.SessionMetadata, q.Offset, q.Order, q.Message)

StoredFile(f, n, cut) ==
    Flatten([k \in 1..n |-> StoredFrame(f, k)])
        \o SubSeq(StoredFrame(f, n + 1), 1, cut)

\* a file ends after a frame, or inside the metadata of a frame
TailCuts == {0, 14}

\* the shapes of a file: no file (<<>>), or <<number of whole frames, cut>>
FileShapes == {<<>>} \cup ((0..MaxFrames) \X TailCuts)

SetInit ==
    /\ prog = "set"
    /\ pc = "open"
    /\ \E shape \in [1..Len(FileNames) -> FileShapes] :
        LET present == {f \in 1..Len(FileNames) : shape[f] # <<>>}
            named(n) == CHOOSE f \in present : FileNames[f] = n
        IN  \* the file that is no recording is there or not
            /\ shape[Len(FileNames)] \in {<<>>, <<1, 0>>}
            /\ dir = [n \in {FileNames[f] : f \in present} |->
                        StoredFile(named(n), shape[named(n)][1], shape[named(n)][2])]
            \* NewRecordingSet fails on a directory without .bin files
            /\ Glob(DOMAIN dir) # {}
            /\ files = SortStrings(Glob(DOMAIN dir))
    /\ fileIdx = -1
    /\ current = "nil"
    /\ rdClosed = FALSE
    /\ rsClosed = FALSE
    /\ data = <<>>
    /\ pos = 0
    /\ retPkt = <<>>
    /\ retErr = NilErr
    /\ got = <<>>
    /\ NoFilter
    /\ NoReplay

\* RecordingSet.Next on a closed set.
SetNextClosed ==
    /\ prog = "set"
    /\ rsClosed
    /\ retPkt' = <<>>
    /\ retErr' = Errorf("recording set is closed", NilErr)
    /\ pc' = "Next"
    /\ UNCHANGED <<prog, data, pos, got>>
    /\ UNCHANGED <<setVars, filterVars, replayVars>>

\* RecordingSet.Next on an open set.
SetNext ==
    /\ prog = "set"
    /\ ~rsClosed
    /\ fileIdx < Len(files) + MaxCallsAfterEnd
    /\ LET r == SetNextLoop(dir, files, fileIdx, current, data, pos, rdClosed) IN
        /\ fileIdx' = r.fileIdx
        /\ current' = r.current
        /\ data' = r.data
        /\ pos' = r.pos
        /\ rdClosed' = r.rdClosed
        /\ retPkt' = r.packet
        /\ retErr' = r.err
        /\ got' = got \o r.packet
    /\ pc' = "Next"
    /\ UNCHANGED <<prog, dir, files, rsClosed>>
    /\ UNCHANGED <<filterVars, replayVars>>

\* what os.File.Close can return
FileCloseErrors == {NilErr, Errorf("close", NilErr)}

\* RecordingSet.Close, with RecordingReader.Close of the current reader
SetClose ==
    /\ prog = "set"
    /\ IF rsClosed
       THEN /\ retErr' = NilErr
            /\ UNCHANGED <<rsClosed, rdClosed>>
       ELSE /\ rsClosed' = TRUE
            /\ IF current # "nil"
               THEN /\ rdClosed' = TRUE
                    /\ retErr' \in FileCloseErrors
               ELSE /\ retErr' = NilErr
                    /\ UNCHANGED rdClosed
    /\ retPkt' = <<>>
    /\ pc' = "Close"
    /\ UNCHANGED <<prog, data, pos, got, dir, files, fileIdx, current>>
    /\ UNCHANGED <<filterVars, replayVars>>

SetNextStep == SetNext \/ SetNextClosed \/ SetClose

SpecSet == SetInit /\ [][SetNextStep]_vars

-----------------------------------------------------------------------------
(* The wire inspector: pure functions of a packet's message.  Go indexes   *)
(* from 0, the sequences here from 1.                                      *)

OpMsg == 2013

\* A slice expression with high < low panics; the value stands for the panic.
Panic == <<-1>>

\* binary.LittleEndian.Uint32(b[at : at+4])
Uint32At(b, at) == LEValue(SubSeq(b, at + 1, at + 4))

\* string(b[lo : hi])
Slice(b, lo, hi) == IF hi < lo THEN Panic ELSE SubSeq(b, lo + 1, hi)

\* strings.Index(s, sub): the first place of sub in s, from 0, or -1.
Index(s, sub) ==
    LET at == {i \in 0..(Len(s) - Len(sub)) : SubSeq(s, i + 1, i + Len(sub)) = sub}
    IN  IF at = {} THEN -1 ELSE CHOOSE i \in at : \A j \in at : i <= j

\* The place of the first NUL of b at or after `from`, or len(b).
NulFrom(b, from) ==
    LET at == {i \in from..(Len(b) - 1) : b[i + 1] = 0}
    IN  IF at = {} THEN Len(b) ELSE CHOOSE i \in at : \A j \in at : i <= j

IsRequest(message) ==
    IF Len(message) < 16 THEN FALSE
    ELSE Uint32At(message, 8) = 0

GetOpCode(message) ==
    IF Len(message) < 16 THEN 0
    ELSE Uint32At(message, 12)

ExtractCommandName(message) ==
    IF Len(message) < 21 THEN <<>>
    ELSE IF GetOpCode(message) # OpMsg THEN <<>>
    ELSE IF message[16 + 4 + 1] # 0 THEN <<>>
    ELSE IF 21 + 4 > Len(message) THEN <<>>
    ELSE IF 25 >= Len(message) THEN <<>>
    ELSE LET nameStart == 26
             offset == NulFrom(message, nameStart)
         IN  IF offset >= Len(message) THEN <<>>
             ELSE Slice(message, nameStart, offset)

DollarDb == <<36, 100, 98>>

ExtractDatabase(message) ==
    IF Len(message) < 21 THEN <<>>
    ELSE IF GetOpCode(message) # OpMsg THEN <<>>
    ELSE LET found == Index(message, DollarDb) IN
         IF found = -1 THEN <<>>
         ELSE LET idx == found + 4 IN
              IF idx + 4 >= Len(message) THEN <<>>
              ELSE LET strLen == Uint32At(message, idx) IN
                   IF idx + 4 + strLen > Len(message) THEN <<>>
                   ELSE Slice(message, idx + 4, idx + 4 + strLen - 1)

ExtractCollection(message) ==
    LET cmd == ExtractCommandName(message) IN
    IF cmd = <<>> THEN <<>>
    ELSE IF Len(message) < 30 THEN <<>>
    ELSE IF GetOpCode(message) # OpMsg THEN <<>>
    ELSE LET offset == NulFrom(message, 16 + 4 + 1 + 4 + 1) + 1 IN
         IF offset >= Len(message) THEN <<>>
         ELSE IF message[(offset - 1 - Len(cmd) - 1) + 1] = 2
         THEN IF offset + 4 > Len(message) THEN <<>>
              ELSE LET strLen == Uint32At(message, offset) IN
                   IF offset + 4 + strLen > Len(message) THEN <<>>
                   ELSE Slice(message, offset + 4, offset + 4 + strLen - 1)
         ELSE <<>>

-----------------------------------------------------------------------------
(* The classifier. *)

userDataOps ==
    { <<105, 110, 115, 101, 114, 116>>,                                \* "insert"
      <<117, 112, 100, 97, 116, 101>>,                                 \* "update"
      <<100, 101, 108, 101, 116, 101>>,                                \* "delete"
      <<102, 105, 110, 100>>,                                          \* "find"
      <<102, 105, 110, 100, 65, 110, 100, 77, 111, 100, 105, 102, 121>>, \* "findAndModify"
      <<97, 103, 103, 114, 101, 103, 97, 116, 101>>,                   \* "aggregate"
      <<99, 111, 117, 110, 116>>,                                      \* "count"
      <<100, 105, 115, 116, 105, 110, 99, 116>> }                      \* "distinct"

ddlOps ==
    { <<99, 114, 101, 97, 116, 101>>,                                  \* "create"
      <<100, 114, 111, 112>>,                                          \* "drop"
      <<99, 114, 101, 97, 116, 101, 73, 110, 100, 101, 120, 101, 115>>, \* "createIndexes"
      <<100, 114, 111, 112, 73, 110, 100, 101, 120, 101, 115>>,        \* "dropIndexes"
      <<108, 105, 115, 116, 73, 110, 100, 101, 120, 101, 115>>,        \* "listIndexes"
      <<99, 111, 108, 108, 77, 111, 100>>,                             \* "collMod"
      <<114, 101, 110, 97, 109, 101, 67, 111, 108, 108, 101, 99, 116, 105, 111, 110>> } \* "renameCollection"

adminOps ==
    { <<101, 120, 112, 108, 97, 105, 110>>,                            \* "explain"
      <<118, 97, 108, 105, 100, 97, 116, 101>>,                        \* "validate"
      <<99, 111, 109, 112, 97, 99, 116>>,                              \* "compact"
      <<114, 101, 73, 110, 100, 101, 120>> }                           \* "reIndex"

IsUserOperation(message) ==
    LET cmd == ExtractCommandName(message)
    IN  cmd \in userDataOps \/ cmd \in ddlOps \/ cmd \in adminOps

replicationOps ==
    { <<114, 101, 112, 108, 83, 101, 116, 72, 101, 97, 114, 116, 98, 101, 97, 116>>, \* "replSetHeartbeat"
      <<114, 101, 112, 108, 83, 101, 116, 71, 101, 116, 83, 116, 97, 116, 117, 115>>, \* "replSetGetStatus"
      <<114, 101, 112, 108, 83, 101, 116, 71, 101, 116, 67, 111, 110, 102, 105, 103>>, \* "replSetGetConfig"
      <<114, 101, 112, 108, 83, 101, 116, 85, 112, 100, 97, 116, 101, 80, 111, 115, 105, 116, 105, 111, 110>>, \* "replSetUpdatePosition"
      <<103, 101, 116, 77, 111, 114, 101>> }                           \* "getMore"

monitoringOps ==
    { <<104, 101, 108, 108, 111>>,                                     \* "hello"
      <<105, 115, 77, 97, 115, 116, 101, 114>>,                        \* "isMaster"
      <<112, 105, 110, 103>>,                                          \* "ping"
      <<98, 117, 105, 108, 100, 73, 110, 102, 111>>,                   \* "buildInfo"
      <<115, 101, 114, 118, 101, 114, 83, 116, 97, 116, 117, 115>>,    \* "serverStatus"
      <<114, 101, 112, 108, 83, 101, 116, 71, 101, 116, 83, 116, 97, 116, 117, 115>> } \* "replSetGetStatus"

internalOps ==
    { <<95, 99, 111, 110, 102, 105, 103, 115, 118, 114, 67, 111, 109, 109, 105, 116, 67, 104, 117, 110, 107, 77, 105, 103, 114, 97, 116, 105, 111, 110>>, \* "_configsvrCommitChunkMigration"
      <<95, 99, 111, 110, 102, 105, 103, 115, 118, 114, 67, 111, 109, 109, 105, 116, 67, 104, 117, 110, 107, 83, 112, 108, 105, 116>>, \* "_configsvrCommitChunkSplit"
      <<95, 115, 104, 97, 114, 100, 115, 118, 114, 67, 108, 111, 110, 101, 67, 97, 116, 97, 108, 111, 103, 68, 97, 116, 97>>, \* "_shardsvrCloneCatalogData"
      <<95, 102, 108, 117, 115, 104, 82, 111, 117, 116, 105, 110, 103, 84, 97, 98, 108, 101, 67, 97, 99, 104, 101, 85, 112, 100, 97, 116, 101, 115>> } \* "_flushRoutingTableCacheUpdates"

IsInternalOperation(message) ==
    LET cmd == ExtractCommandName(message)
    IN  cmd \in replicationOps \/ cmd \in monitoringOps \/ cmd \in internalOps

internalDatabases ==
    { <<108, 111, 99, 97, 108>>,                                       \* "local"
      <<97, 100, 109, 105, 110>>,                                      \* "admin"
      <<99, 111, 110, 102, 105, 103>> }                                \* "config"

\* the internal databases without "local"
IsInternalDatabaseNoLocal(db) ==
    db \in internalDatabases \ { <<108, 111, 99, 97, 108>> }

IsInternalDatabase(db) == db \in internalDatabases

SystemDot == <<115, 121, 115, 116, 101, 109, 46>>

internalCollections ==
    { <<111, 112, 108, 111, 103, 46, 114, 115>>,                       \* "oplog.rs"
      <<115, 116, 97, 114, 116, 117, 112, 95, 108, 111, 103>>,         \* "startup_log"
      <<114, 101, 112, 108, 115, 101, 116, 46, 101, 108, 101, 99, 116, 105, 111, 110>>, \* "replset.election"
      <<114, 101, 112, 108, 115, 101, 116, 46, 109, 105, 110, 118, 97, 108, 105, 100>>, \* "replset.minvalid"
      <<114, 101, 112, 108, 115, 101, 116, 46, 111, 112, 108, 111, 103, 84, 114, 117, 110, 99, 97, 116, 101, 65, 102, 116, 101, 114, 80, 111, 105, 110, 116>> } \* "replset.oplogTruncateAfterPoint"

IsInternalCollection(coll) ==
    HasPrefix(coll, SystemDot) \/ coll \in internalCollections

likelyUserOps ==
    { <<105, 110, 115, 101, 114, 116>>,                                \* "insert"
      <<117, 112, 100, 97, 116, 101>>,                                 \* "update"
      <<100, 101, 108, 101, 116, 101>>,                                \* "delete"
      <<102, 105, 110, 100, 65, 110, 100, 77, 111, 100, 105, 102, 121>>, \* "findAndModify"
      <<99, 114, 101, 97, 116, 101>>,                                  \* "create"
      <<100, 114, 111, 112>>,                                          \* "drop"
      <<99, 114, 101, 97, 116, 101, 73, 110, 100, 101, 120, 101, 115>>, \* "createIndexes"
      <<100, 114, 111, 112, 73, 110, 100, 101, 120, 101, 115>> }       \* "dropIndexes"

definiteInternalOps ==
    { <<104, 101, 108, 108, 111>>,                                     \* "hello"
      <<105, 115, 77, 97, 115, 116, 101, 114>>,                        \* "isMaster"
      <<112, 105, 110, 103>>,                                          \* "ping"
      <<98, 117, 105, 108, 100, 73, 110, 102, 111>>,                   \* "buildInfo"
      <<114, 101, 112, 108, 83, 101, 116, 72, 101, 97, 114, 116, 98, 101, 97, 116>>, \* "replSetHeartbeat"
      <<114, 101, 112, 108, 83, 101, 116, 71, 101, 116, 83, 116, 97, 116, 117, 115>>, \* "replSetGetStatus"
      <<114, 101, 112, 108, 83, 101, 116, 85, 112, 100, 97, 116, 101, 80, 111, 115, 105, 116, 105, 111, 110>> } \* "replSetUpdatePosition"

ambiguousOps ==
    { <<102, 105, 110, 100>>,                                          \* "find"
      <<97, 103, 103, 114, 101, 103, 97, 116, 101>>,                   \* "aggregate"
      <<99, 111, 117, 110, 116>>,                                      \* "count"
      <<100, 105, 115, 116, 105, 110, 99, 116>>,                       \* "distinct"
      <<103, 101, 116, 77, 111, 114, 101>>,                            \* "getMore"
      <<108, 105, 115, 116, 73, 110, 100, 101, 120, 101, 115>>,        \* "listIndexes"
      <<108, 105, 115, 116, 67, 111, 108, 108, 101, 99, 116, 105, 111, 110, 115>>, \* "listCollections"
      <<108, 105, 115, 116, 68, 97, 116, 97, 98, 97, 115, 101, 115>> } \* "listDatabases"

GetMore == <<103, 101, 116, 77, 111, 114, 101>>
Local == <<108, 111, 99, 97, 108>>
OplogRs == <<111, 112, 108, 111, 103, 46, 114, 115>>

IsLikelyUserOperation(message) ==
    LET cmd == ExtractCommandName(message)
        db == ExtractDatabase(message)
        coll == ExtractCollection(message)
    IN  IF cmd = <<>> THEN FALSE
        ELSE IF cmd \in likelyUserOps
        THEN IF IsInternalDatabase(db) /\ IsInternalCollection(coll) THEN FALSE
             ELSE IF IsInternalDatabase(db) THEN FALSE
             ELSE TRUE
        ELSE IF cmd \in definiteInternalOps THEN FALSE
        ELSE IF cmd \in ambiguousOps
        THEN IF cmd = GetMore /\ db = Local /\ coll = OplogRs THEN FALSE
             ELSE IF IsInternalDatabase(db) THEN FALSE
             ELSE TRUE
        ELSE FALSE

-----------------------------------------------------------------------------
(* Wire messages of recordings: the 16-byte header and, for OP_MSG, the    *)
(* flag bits, section kind 0 and one BSON document.                        *)

OpQuery == 2004

WireHeader(messageLength, requestID, responseTo, opCode) ==
    LEBytes(messageLength, 4) \o LEBytes(requestID, 4)
        \o LEBytes(responseTo, 4) \o LEBytes(opCode, 4)

BsonString(name, value) ==
    <<2>> \o name \o <<0>> \o LEBytes(Len(value) + 1, 4) \o value \o <<0>>

BsonInt32(name, v) == <<16>> \o name \o <<0>> \o LEBytes(v, 4)

BsonInt64(name, v) == <<18>> \o name \o <<0>> \o LEBytes(v, 8)

\* the double 1.0
BsonDoubleOne(name) == <<1>> \o name \o <<0>> \o <<0, 0, 0, 0, 0, 0, 240, 63>>

BsonDocument(elements) ==
    LEBytes(4 + Len(Flatten(elements)) + 1, 4) \o Flatten(elements) \o <<0>>

OpMsgMessage(requestID, responseTo, elements) ==
    LET body == <<0, 0, 0, 0>> \o <<0>> \o BsonDocument(elements)
    IN  WireHeader(16 + Len(body), requestID, responseTo, OpMsg) \o body

\* {insert: "users", $db: "app"}, a request
InsertUsers ==
    OpMsgMessage(1, 0, << BsonString(<<105, 110, 115, 101, 114, 116>>, <<117, 115, 101, 114, 115>>),
                          BsonString(DollarDb, <<97, 112, 112>>) >>)

\* {getMore: 5, collection: "oplog.rs", $db: "local"}, a request
GetMoreOplog ==
    OpMsgMessage(2, 0, << BsonInt64(GetMore, 5),
                          BsonString(<<99, 111, 108, 108, 101, 99, 116, 105, 111, 110>>, OplogRs),
                          BsonString(DollarDb, Local) >>)

\* {getMore: "oplog.rs", $db: "local"}, a request: the collection is where
\* ExtractCollection reads it
GetMoreNamed ==
    OpMsgMessage(4, 0, << BsonString(GetMore, OplogRs), BsonString(DollarDb, Local) >>)

\* {ok: 1.0}, the response to request 1
ReplyOk == OpMsgMessage(9, 1, << BsonDoubleOne(<<111, 107>>) >>)

\* the header of an OP_QUERY request and nothing else
LegacyQuery == WireHeader(16, 3, 0, OpQuery)

-----------------------------------------------------------------------------
(* The filter (cmd/filter). *)

\* cmd == c for some c of the list
InList(cmd, list) == \E i \in 1..Len(list) : cmd = list[i]

\* shouldKeepPacket after its time range filter: <<keep, reason>>
KeepAfterTimeRange(packet, cfg) ==
    IF cfg.requestsOnly /\ Len(packet.Message) # 0 /\ ~IsRequest(packet.Message)
    THEN <<FALSE, "response">>
    ELSE IF cfg.userOpsOnly /\ Len(packet.Message) = 0
    THEN <<FALSE, "empty-message">>
    ELSE IF cfg.userOpsOnly /\ ~IsUserOperation(packet.Message)
    THEN <<FALSE, "internal-operation">>
    ELSE IF cfg.userOpsOnlySmart /\ Len(packet.Message) = 0
    THEN <<FALSE, "empty-message">>
    ELSE IF cfg.userOpsOnlySmart /\ ~IsLikelyUserOperation(packet.Message)
    THEN <<FALSE, "internal-operation">>
    ELSE IF cfg.excludeInternal /\ IsInternalOperation(packet.Message)
    THEN <<FALSE, "internal-operation">>
    ELSE LET cmd == ExtractCommandName(packet.Message) IN
         IF Len(cfg.includeCommands) > 0 /\ ~InList(cmd, cfg.includeCommands)
         THEN <<FALSE, "command-filter">>
         ELSE IF Len(cfg.excludeCommands) > 0 /\ InList(cmd, cfg.excludeCommands)
         THEN <<FALSE, "command-filter">>
         ELSE <<TRUE, "">>

\* shouldKeepPacket with a requests-only filter that asks every packet,
\* the empty ones too, to be a request
ShouldKeepPacketRequestsStrict(packet, cfg) ==
    IF cfg.minOffset > 0 /\ packet.Offset < cfg.minOffset
    THEN <<FALSE, "time-range">>
    ELSE IF cfg.maxOffset > 0 /\ packet.Offset > cfg.maxOffset
    THEN <<FALSE, "time-range">>
    ELSE IF cfg.requestsOnly /\ ~IsRequest(packet.Message)
    THEN <<FALSE, "response">>
    ELSE KeepAfterTimeRange(packet, cfg)

\* shouldKeepPacket with a strict lower end of the time range
ShouldKeepPacketStrictMin(packet, cfg) ==
    IF cfg.minOffset > 0 /\ packet.Offset <= cfg.minOffset
    THEN <<FALSE, "time-range">>
    ELSE IF cfg.maxOffset > 0 /\ packet.Offset > cfg.maxOffset
    THEN <<FALSE, "time-range">>
    ELSE KeepAfterTimeRange(packet, cfg)

\* shouldKeepPacket: <<keep, reason>>
ShouldKeepPacket(packet, cfg) ==
    IF cfg.minOffset > 0 /\ packet.Offset < cfg.minOffset
    THEN <<FALSE, "time-range">>
    ELSE IF cfg.maxOffset > 0 /\ packet.Offset > cfg.maxOffset
    THEN <<FALSE, "time-range">>
    ELSE KeepAfterTimeRange(packet, cfg)

\* writePacket with the two 8-byte fields after the metadata in the wrong order
WritePacketSwapped(packet) ==
    LET headerSize == 4 + 8 + Len(packet.SessionMetadata) + 1 + 8 + 8
        totalSize == headerSize + Len(packet.Message)
    IN  LEBytes(totalSize, 4) \o LEBytes(packet.SessionID, 8)
            \o packet.SessionMetadata \o <<0>>
            \o LEBytes(packet.Order, 8) \o LEBytes(packet.Offset, 8)
            \o packet.Message

\* writePacket with a header size that leaves out the terminator of the metadata
WritePacketShortSize(packet) ==
    LET headerSize == 4 + 8 + Len(packet.SessionMetadata) + 8 + 8
        totalSize == headerSize + Len(packet.Message)
    IN  LEBytes(totalSize, 4) \o LEBytes(packet.SessionID, 8)
            \o packet.SessionMetadata \o <<0>>
            \o LEBytes(packet.Offset, 8) \o LEBytes(packet.Order, 8)
            \o packet.Message

\* writePacket: the bytes it writes.  uint32(headerSize + len(message)) is
\* the sum itself, as the sum is the size of a frame that was read.
WritePacket(packet) ==
    LET headerSize == 4 + 8 + Len(packet.SessionMetadata) + 1 + 8 + 8
        totalSize == headerSize + Len(packet.Message)
    IN  LEBytes(totalSize, 4) \o LEBytes(packet.SessionID, 8)
            \o packet.SessionMetadata \o <<0>>
            \o LEBytes(packet.Offset, 8) \o LEBytes(packet.Order, 8)
            \o packet.Message

\* the drop counter of a reason; "empty-message" has none
CountDrop(st, reason) ==
    IF reason = "response"
    THEN [st EXCEPT !.droppedResponses = @ + 1]
    ELSE IF reason = "internal-operation"
    THEN [st EXCEPT !.droppedInternal = @ + 1]
    ELSE IF reason = "command-filter"
    THEN [st EXCEPT !.droppedByCommand = @ + 1]
    ELSE IF reason = "time-range"
    THEN [st EXCEPT !.droppedByTime = @ + 1]
    ELSE st

\* The recordings given to the filter: the k-th frame has order k.
FilterMessages == {<<>>, InsertUsers, GetMoreOplog, GetMoreNamed, ReplyOk, LegacyQuery}

\* offsets that do not follow the order of the frames: 2, 1, 0, 4, ...
FilterOffset(k) == (4 * k + 3) % 5

FilterFrame(k, message) == Frame(1, <<97, 98>>, FilterOffset(k), k, message)

FilterWhole(n) ==
    {Flatten([k \in 1..n |-> FilterFrame(k, ms[k])]) : ms \in [1..n -> FilterMessages]}

\* whole recordings, and shorter ones that end inside a further frame
FilterRecordings ==
    UNION {FilterWhole(n) : n \in 0..MaxFilterPackets}
    \cup UNION {{w \o SubSeq(FilterFrame(n + 1, <<>>), 1, 10) : w \in FilterWhole(n)} :
                n \in 0..(MaxFilterPackets - 1)}

\* --include / --exclude lists, and --min-offset / --max-offset pairs
CommandLists == {<<<<>>, <<>>>>, <<<<<<105, 110, 115, 101, 114, 116>>, GetMore>>, <<GetMore>>>>}
OffsetWindows == {<<0, 0>>, <<2, 0>>, <<0, 1>>}

FilterConfigs ==
    {[requestsOnly |-> b[1], userOpsOnly |-> b[2], userOpsOnlySmart |-> b[3],
      excludeInternal |-> b[4], includeCommands |-> c[1], excludeCommands |-> c[2],
      minOffset |-> w[1], maxOffset |-> w[2]] :
     b \in [1..4 -> BOOLEAN], c \in CommandLists, w \in OffsetWindows}

FilterInit ==
    /\ prog = "filter"
    /\ pc = "loop"
    /\ data \in FilterRecordings
    /\ pos = 0
    /\ rdClosed = FALSE
    /\ retPkt = <<>>
    /\ retErr = NilErr
    /\ got = <<>>
    /\ NoSet
    /\ config \in FilterConfigs
    /\ stats = [inputPackets |-> 0, outputPackets |-> 0, droppedResponses |-> 0,
                droppedInternal |-> 0, droppedByCommand |-> 0, droppedByTime |-> 0,
                inputBytes |-> 0, outputBytes |-> 0]
    /\ output = <<>>
    /\ NoReplay

\* One turn of the loop of filterRecording.
FilterStep ==
    /\ prog = "filter"
    /\ pc = "loop"
    /\ LET r == ReaderNext(data, pos, rdClosed) IN
        /\ pos' = r.pos
        /\ retPkt' = r.packet
        /\ retErr' = r.err
        /\ got' = got \o r.packet
        /\ IF r.err = EOF
           THEN pc' = "done" /\ UNCHANGED <<stats, output>>
           ELSE IF r.err # NilErr
           THEN pc' = "failed" /\ UNCHANGED <<stats, output>>
           ELSE LET packet == r.packet[1]
                    counted == [stats EXCEPT !.inputPackets = @ + 1,
                                             !.inputBytes = @ + packet.Size]
                    verdict == ShouldKeepPacket(packet, config)
                IN  /\ pc' = "loop"
                    /\ IF ~verdict[1]
                       THEN /\ stats' = CountDrop(counted, verdict[2])
                            /\ UNCHANGED output
                       ELSE /\ output' = output \o WritePacket(packet)
                            /\ stats' = [counted EXCEPT !.outputPackets = @ + 1,
                                                        !.outputBytes = @ + packet.Size]
    /\ UNCHANGED <<prog, data, rdClosed, config>>
    /\ UNCHANGED replayVars
    /\ UNCHANGED <<dir, files, fileIdx, current, rsClosed>>

FilterNext == FilterStep

SpecFilter == FilterInit /\ [][FilterNext]_vars

-----------------------------------------------------------------------------
(* The raw sender (pkg/sender/raw_sender.go). *)

OpReply == 1
OpUpdate == 2001
OpInsert == 2002
OpGetMore == 2005
OpDelete == 2006
OpKillCursors == 2007
OpCompressed == 2012

\* wiremessage.ReadHeader: the four fields of the 16-byte header
ReadHeader(src) ==
    IF Len(src) < 16
    THEN [ok |-> FALSE, length |-> 0, requestID |-> 0, responseTo |-> 0, opcode |-> 0]
    ELSE [ok |-> TRUE, length |-> Uint32At(src, 0), requestID |-> Uint32At(src, 4),
          responseTo |-> Uint32At(src, 8), opcode |-> Uint32At(src, 12)]

isLegacyOpCode(opcode) ==
    opcode \in {OpQuery, OpInsert, OpUpdate, OpDelete, OpGetMore, OpKillCursors}

\* validateWireMessage: the error it returns
validateWireMessage(wireMessageBytes) ==
    LET h == ReadHeader(wireMessageBytes) IN
    IF ~h.ok THEN Errorf("invalid wire message header", NilErr)
    ELSE IF isLegacyOpCode(h.opcode) THEN Errorf("unsupported legacy opcode", NilErr)
    ELSE IF h.length # Len(wireMessageBytes)
    THEN Errorf("wire message length mismatch", NilErr)
    ELSE NilErr

\* what the connection pool and the connection do with one message
RawConns == {"no-connection", "write-fails", "written"}

\* SendRawWireMessage: its error, and whether conn.Write was called
SendRawWireMessage(wireMessageBytes, conn) ==
    LET err == validateWireMessage(wireMessageBytes) IN
    IF err # NilErr THEN [err |-> err, write |-> FALSE]
    ELSE IF conn = "no-connection"
    THEN [err |-> Errorf("failed to get connection", NilErr), write |-> FALSE]
    ELSE IF conn = "write-fails"
    THEN [err |-> Errorf("write failed", NilErr), write |-> TRUE]
    ELSE [err |-> NilErr, write |-> TRUE]

-----------------------------------------------------------------------------
(* The command sender (pkg/sender/command.go, sender.go, result.go). *)

\* bson.Unmarshal accepts a document whose length field is the length of the
\* bytes given and whose last byte is 0
UnmarshalFails(bsonData) ==
    \/ Len(bsonData) < 5
    \/ Uint32At(bsonData, 0) # Len(bsonData)
    \/ bsonData[Len(bsonData)] # 0

\* ExtractCommand: its error, and the database and name of the command
ExtractCommand(message) ==
    LET none == [Database |-> <<>>, Name |-> <<>>]
        cmdName == ExtractCommandName(message)
        database == ExtractDatabase(message)
    IN  IF GetOpCode(message) # 2013
        THEN [err |-> Errorf("unsupported opcode", NilErr)] @@ none
        ELSE IF cmdName = <<>>
        THEN [err |-> Errorf("failed to extract command name", NilErr)] @@ none
        ELSE IF database = <<>>
        THEN [err |-> Errorf("failed to extract database name", NilErr)] @@ none
        ELSE IF Len(message) < 21
        THEN [err |-> Errorf("packet too short to contain BSON document", NilErr)] @@ none
        ELSE IF UnmarshalFails(SubSeq(message, 22, Len(message)))
        THEN [err |-> Errorf("failed to unmarshal BSON", NilErr)] @@ none
        ELSE [err |-> NilErr, Database |-> database, Name |-> cmdName]

\* Response documents of the server, as decoded into a bson.M: each field has
\* the Go type of its value.  1.0 is written 1.
Responses ==
    {[ok |-> [type |-> "int32", v |-> 1]],
     [ok |-> [type |-> "float64", v |-> 1]],
     [ok |-> [type |-> "float64", v |-> 0]],
     [ok |-> [type |-> "bool", v |-> 1]],
     [n |-> [type |-> "int32", v |-> 1]]}

\* what db.RunCommand(...).Decode gives: an error, or a response document
DriverReplies == {<<>>} \cup {<<d>> : d \in Responses}

\* SendCommand
SendCommand(reply) ==
    IF reply = <<>>
    THEN [err |-> Errorf("command failed", NilErr),
          result |-> [Success |-> FALSE, Response |-> <<>>]]
    ELSE [err |-> NilErr, result |-> [Success |-> TRUE, Response |-> reply]]

\* Result.IsOK
IsOK(r) ==
    IF ~r.Success THEN FALSE
    ELSE IF r.Response = <<>> THEN FALSE
    ELSE IF "ok" \in DOMAIN r.Response[1]
              /\ r.Response[1].ok.type \in {"int", "int32", "int64", "float64"}
    THEN r.Response[1].ok.v = 1
    ELSE TRUE

-----------------------------------------------------------------------------
(* The replay loops (cmd/replay). *)

\* Numbers wider than the integers of the checker are kept as their digits of
\* 16 bits each, least significant first.
Base == 2 ^ 16

RECURSIVE Limbs(_)
Limbs(n) == IF n = 0 THEN <<>> ELSE <<n % Base>> \o Limbs(n \div Base)

\* x * m + carry for a small m
RECURSIVE MulAdd(_, _, _)
MulAdd(x, m, carry) ==
    IF x = <<>> THEN Limbs(carry)
    ELSE LET v == x[1] * m + carry
         IN  <<v % Base>> \o MulAdd(Tail(x), m, v \div Base)

\* quotient and remainder of x by a small p
RECURSIVE DivMod(_, _)
DivMod(x, p) ==
    IF x = <<>> THEN [q |-> <<>>, r |-> 0]
    ELSE LET hi == DivMod(Tail(x), p)
             v == hi.r * Base + x[1]
         IN  [q |-> <<v \div p>> \o hi.q, r |-> v % p]

\* the first n digits, padded with zeros
Low(x, n) == [i \in 1..n |-> IF i <= Len(x) THEN x[i] ELSE 0]

\* the i-th bit, counted from 1 at the least significant end
Bit(x, i) ==
    LET k == (i - 1) \div 16 + 1
    IN  IF k > Len(x) THEN 0 ELSE (x[k] \div 2 ^ ((i - 1) % 16)) % 2

\* the number of significant bits
BitLen(x) ==
    IF \E k \in 1..Len(x) : x[k] # 0
    THEN LET k == CHOOSE i \in 1..Len(x) : x[i] # 0 /\ \A j \in (i + 1)..Len(x) : x[j] = 0
         IN  16 * (k - 1) + CHOOSE n \in 1..16 : 2 ^ (n - 1) <= x[k] /\ x[k] < 2 ^ n
    ELSE 0

\* x shifted by s bits to the left and to the right
Shl(x, s) == [i \in 1..(s \div 16) |-> 0] \o MulAdd(x, 2 ^ (s % 16), 0)

Shr(x, s) == DivMod(SubSeq(x, s \div 16 + 1, Len(x)), 2 ^ (s % 16)).q

\* the number with digits x, when it is small
RECURSIVE Value(_)
Value(x) == IF x = <<>> THEN 0 ELSE x[1] + Base * Value(Tail(x))

\* packet.Offset - lastOffset in uint64: a difference below zero wraps
Uint64Sub(a, b) ==
    IF a >= b THEN Low(Limbs(a - b), 4)
    ELSE [i \in 1..4 |-> Base - 1 - Low(Limbs(b - a - 1), 4)[i]]

\* the mantissa of a float64
MantissaBits == 53

\* The float64 nearest to x, or to a little more than x when sticky, ties to
\* even; x has more bits than the mantissa or is exact.
Float64(x, sticky) ==
    LET s == BitLen(x) - MantissaBits IN
    IF s <= 0 THEN x
    ELSE LET keep == Shr(x, s)
             rest == sticky \/ \E i \in 1..(s - 1) : Bit(x, i) = 1
             up   == Bit(x, s) = 1 /\ (rest \/ Bit(x, s + 1) = 1)
         IN  Shl(IF up THEN MulAdd(keep, 1, 1) ELSE keep, s)

\* float64(x)/speed, truncated toward zero; the quotient is computed with t
\* more bits so that it is rounded the way the division rounds it
Quotient(x, speed) ==
    LET y == MulAdd(Float64(x, FALSE), speed[2], 0)
        n == BitLen(DivMod(y, speed[1]).q)
        t == IF n > MantissaBits + 1 THEN 0 ELSE MantissaBits + 2 - n
        d == DivMod(Shl(y, t), speed[1])
    IN  Shr(Float64(d.q, d.r # 0), t)

MinInt64 == <<0, 0, 0, Base \div 2>>

MaxInt64 == <<Base - 1, Base - 1, Base - 1, Base \div 2 - 1>>

\* time.Duration(f) for a float64 f with whole value x: an int64 in two's
\* complement; the language leaves the result to the implementation when the
\* value is out of range (amd64 gives the smallest int64, arm64 the largest)
Duration(x) ==
    IF BitLen(x) <= 63 THEN {Low(x, 4)} ELSE {MinInt64, MaxInt64}

\* nanoseconds in a microsecond (time.Microsecond)
Microsecond == 1000

\* the longest sleep the clock of the model tells apart, in microseconds
Horizon == 1000000

\* time.Duration(float64(packet.Offset-lastOffset)/speed) * time.Microsecond:
\* the delays, in int64 nanoseconds, the build can produce
Delay(offset, last, speed) ==
    {Low(MulAdd(d, Microsecond, 0), 4) : d \in Duration(Quotient(Uint64Sub(offset, last), speed))}

\* if delay > 0 { time.Sleep(delay) }: the microseconds slept
Sleep(delay) ==
    IF delay[4] >= Base \div 2 \/ BitLen(delay) = 0 THEN 0
    ELSE LET us == DivMod(delay, Microsecond).q
         IN  IF BitLen(us) < BitLen(Limbs(Horizon)) THEN Value(us) ELSE Horizon

\* timing logic that treats speed 0 as the original speed
PaceAtAnySpeed(offset) ==
    IF firstOp
    THEN {[sleep |-> 0, lastOffset |-> offset, firstOp |-> FALSE]}
    ELSE {[sleep |-> Sleep(delay), lastOffset |-> offset, firstOp |-> FALSE] :
          delay \in Delay(offset, lastOffset,
                          IF opts.speed[1] > 0 THEN opts.speed ELSE <<1, 1>>)}

\* The timing logic before a send: the times that can be slept and the timing
\* state after it.
Pace(offset) ==
    IF opts.speed[1] > 0
    THEN IF firstOp
         THEN {[sleep |-> 0, lastOffset |-> offset, firstOp |-> FALSE]}
         ELSE {[sleep |-> Sleep(delay), lastOffset |-> offset, firstOp |-> FALSE] :
               delay \in Delay(offset, lastOffset, opts.speed)}
    ELSE {[sleep |-> 0, lastOffset |-> lastOffset, firstOp |-> firstOp]}

\* the time one send can take, in microseconds
SendDurations == {0, 3}

\* A turn that attempts no operation.
NoAttempt(kind, c) ==
    [kind |-> kind, counts |-> c, lastOffset |-> lastOffset, firstOp |-> firstOp,
     now |-> now, wire |-> wire, log |-> log]

\* A turn that attempts the operation of a packet: it sleeps, and the attempt
\* takes time d; sent tells whether a sender was called, reply is what the
\* driver gave, written is what conn.Write was given.
Attempt(packet, t, c, ok, sent, d, reply, written) ==
    [kind |-> IF ok THEN "success" ELSE "failed",
     counts |-> IF ok THEN [c EXCEPT !.successfulOps = @ + 1]
                      ELSE [c EXCEPT !.failedOps = @ + 1],
     lastOffset |-> t.lastOffset, firstOp |-> t.firstOp,
     now |-> now + t.sleep + d,
     wire |-> wire \o written,
     log |-> Append(log, [offset |-> packet.Offset, ready |-> now,
                          at |-> now + t.sleep, sent |-> sent, reply |-> reply,
                          recorded |-> IF ok THEN "success" ELSE "failed"])]

\* a limit that is found reached one operation late
LimitReachedLate(c) ==
    opts.limit > 0 /\ c.successfulOps + c.failedOps > opts.limit

\* if limit > 0 && (successfulOps+failedOps) >= limit
LimitReached(c) ==
    opts.limit > 0 /\ c.successfulOps + c.failedOps >= opts.limit

\* The ways a turn of the loop of runRawMode can go for a packet.
RawTurn(packet) ==
    LET c == [counts EXCEPT !.totalPackets = @ + 1]
        skipped == NoAttempt("skipped", [c EXCEPT !.skippedPackets = @ + 1])
    IN  IF opts.requestsOnly /\ ~IsRequest(packet.Message) THEN {skipped}
        ELSE IF opts.userOpsOnly /\ ~IsLikelyUserOperation(packet.Message) THEN {skipped}
        ELSE IF Len(packet.Message) = 0 THEN {skipped}
        ELSE IF LimitReached(c) THEN {NoAttempt("limit", c)}
        ELSE IF opts.dryRun
        THEN {Attempt(packet, t, c, TRUE, FALSE, 0, <<>>, <<>>) : t \in Pace(packet.Offset)}
        ELSE {LET s == SendRawWireMessage(packet.Message, conn)
              IN  Attempt(packet, t, c, s.err = NilErr, TRUE, d, <<>>,
                          IF s.write THEN <<packet.Message>> ELSE <<>>) :
              t \in Pace(packet.Offset), conn \in RawConns, d \in SendDurations}

\* The ways a turn of the loop of runCommandMode can go for a packet.
CommandTurn(packet) ==
    LET c == [counts EXCEPT !.totalPackets = @ + 1]
        skipped == NoAttempt("skipped", [c EXCEPT !.skippedPackets = @ + 1])
    IN  IF opts.requestsOnly /\ ~IsRequest(packet.Message) THEN {skipped}
        ELSE IF opts.userOpsOnly /\ ~IsLikelyUserOperation(packet.Message) THEN {skipped}
        ELSE IF ExtractCommand(packet.Message).err # NilErr THEN {skipped}
        ELSE IF LimitReached(c) THEN {NoAttempt("limit", c)}
        ELSE IF opts.dryRun
        THEN {Attempt(packet, t, c, TRUE, FALSE, 0, <<>>, <<>>) : t \in Pace(packet.Offset)}
        ELSE {LET s == SendCommand(reply)
              IN  Attempt(packet, t, c, s.err = NilErr /\ IsOK(s.result), TRUE, d, reply, <<>>) :
              t \in Pace(packet.Offset), reply \in DriverReplies, d \in SendDurations}

\* the loop that stops at a failed operation
BreaksOnFailure(kind) == kind \in {"limit", "failed"}

\* the turns that leave the loop by break
Breaks(kind) == kind = "limit"

\* an exit status that ignores the failures
ExitCodeZero(failedOps) == 0

\* the exit status after the summary
ExitCode(failedOps) == IF failedOps > 0 THEN 1 ELSE 0

\* the ways a turn can go in the mode of the run
Turn(packet) ==
    IF opts.mode = "raw" THEN RawTurn(packet) ELSE CommandTurn(packet)

\* One turn of a replay loop.
ReplayTurn ==
    LET r == ReaderNext(data, pos, rdClosed) IN
    /\ pos' = r.pos
    /\ retPkt' = r.packet
    /\ retErr' = r.err
    /\ got' = got \o r.packet
    /\ IF r.err = EOF
       THEN /\ pc' = "exited"
            /\ exitCode' = ExitCode(counts.failedOps)
            /\ UNCHANGED <<counts, lastOffset, firstOp, now, wire, log>>
       ELSE IF r.err # NilErr
       THEN /\ pc' = "exited"
            /\ exitCode' = 1
            /\ UNCHANGED <<counts, lastOffset, firstOp, now, wire, log>>
       ELSE \E o \in Turn(r.packet[1]) :
            /\ counts' = o.counts
            /\ lastOffset' = o.lastOffset
            /\ firstOp' = o.firstOp
            /\ now' = o.now
            /\ wire' = o.wire
            /\ log' = o.log
            /\ pc' = IF Breaks(o.kind) THEN "exited" ELSE "loop"
            /\ exitCode' = IF Breaks(o.kind) THEN ExitCode(o.counts.failedOps)
                           ELSE exitCode
    /\ UNCHANGED <<prog, data, rdClosed, opts>>
    /\ UNCHANGED <<dir, files, fileIdx, current, rsClosed>>
    /\ UNCHANGED filterVars

\* The recordings given to the replay: the k-th frame has order k.
OpReplyMessage == WireHeader(16, 9, 1, OpReply)

ReplayMessages == {<<>>, InsertUsers, ReplyOk, LegacyQuery, OpReplyMessage}

ReplayOffset(k) == 4 * k

ReplayFrame(k, message) == Frame(1, <<97, 98>>, ReplayOffset(k), k, message)

ReplayWhole(n) ==
    {Flatten([k \in 1..n |-> ReplayFrame(k, ms[k])]) : ms \in [1..n -> ReplayMessages]}

\* a recording of two requests whose offsets go backwards
ReplayBackward ==
    Frame(1, <<97, 98>>, ReplayOffset(2), 1, InsertUsers)
        \o Frame(1, <<97, 98>>, ReplayOffset(1), 2, InsertUsers)

\* whole recordings, shorter ones that end inside a further frame, and
\* recordings with offsets that go backwards
ReplayRecordings ==
    UNION {ReplayWhole(n) : n \in 0..MaxReplayPackets}
    \cup {ReplayBackward}
    \cup UNION {{w \o SubSeq(ReplayFrame(n + 1, <<>>), 1, 10) : w \in ReplayWhole(n)} :
                n \in 0..(MaxReplayPackets - 1)}

\* speeds 0, 3 and 1/2
Speeds == {<<0, 1>>, <<3, 1>>, <<1, 2>>}

\* --requests-only, --user-ops, --limit and --speed: the packet filters are
\* tried at speed 0, every speed with and without a limit
ReplayFilters ==
    {<<TRUE, FALSE, 0, <<0, 1>>>>, <<FALSE, TRUE, 0, <<0, 1>>>>}
    \cup {<<FALSE, FALSE, l, s>> : l \in {0, 1}, s \in Speeds}

ReplayOptions ==
    {[mode |-> m, requestsOnly |-> f[1], userOpsOnly |-> f[2], dryRun |-> dry,
      limit |-> f[3], speed |-> f[4]] :
     m \in {"raw", "command"}, f \in ReplayFilters, dry \in BOOLEAN}

ReplayInit ==
    /\ prog = "replay"
    /\ pc = "connect"
    /\ data \in ReplayRecordings
    /\ pos = 0
    /\ rdClosed = FALSE
    /\ retPkt = <<>>
    /\ retErr = NilErr
    /\ got = <<>>
    /\ NoSet
    /\ NoFilter
    /\ opts \in ReplayOptions
    /\ counts = [totalPackets |-> 0, skippedPackets |-> 0, successfulOps |-> 0,
                 failedOps |-> 0]
    /\ lastOffset = 0
    /\ firstOp = TRUE
    /\ now = 0
    /\ exitCode = -1
    /\ wire = <<>>
    /\ log = <<>>

\* The sender is made, unless the run is a dry run; the process exits if the
\* server cannot be reached.
ReplayConnect ==
    /\ prog = "replay"
    /\ pc = "connect"
    /\ \E connected \in BOOLEAN :
        /\ opts.dryRun => connected
        /\ pc' = IF connected THEN "loop" ELSE "exited"
        /\ exitCode' = IF connected THEN exitCode ELSE 1
    /\ UNCHANGED <<prog, readerVars, setVars, filterVars>>
    /\ UNCHANGED <<opts, counts, lastOffset, firstOp, now, wire, log>>

RawStep ==
    /\ prog = "replay"
    /\ pc = "loop"
    /\ opts.mode = "raw"
    /\ ReplayTurn

CommandStep ==
    /\ prog = "replay"
    /\ pc = "loop"
    /\ opts.mode = "command"
    /\ ReplayTurn

ReplayNext == ReplayConnect \/ RawStep \/ CommandStep

SpecReplay == ReplayInit /\ [][ReplayNext]_vars

-----------------------------------------------------------------------------
(* The inspector alone: its functions applied to one wire message. *)

\* {cmd: coll, $db: db}, a request
CommandMessage(cmd, coll, db) ==
    OpMsgMessage(1, 0, << BsonString(cmd, coll), BsonString(DollarDb, db) >>)

\* a string element whose declared length is 0
BsonStringOfLengthZero(name) == <<2>> \o name \o <<0>> \o LEBytes(0, 4) \o <<0>>

\* requests whose document declares a string of length 0: as the value of
\* $db, and as the value of the command field
MalformedMessages ==
    { OpMsgMessage(1, 0, << BsonString(<<102, 105, 110, 100>>, <<117, 115, 101, 114, 115>>),
                            BsonStringOfLengthZero(DollarDb) >>),
      OpMsgMessage(1, 0, << BsonStringOfLengthZero(<<102, 105, 110, 100>>),
                            BsonString(DollarDb, <<97, 112, 112>>) >>) }

\* command names, collections and databases of the messages inspected
InspectCommands == likelyUserOps \cup definiteInternalOps \cup ambiguousOps

InspectCollections ==
    { <<117, 115, 101, 114, 115>>,                                   \* "users"
      <<115, 121, 115, 116, 101, 109, 46, 106, 115>>,                          \* "system.js"
      OplogRs,
      <<114, 101, 112, 108, 115, 101, 116, 46, 101, 108, 101, 99, 116, 105, 111, 110>> }   \* "replset.election"

InspectDatabases == internalDatabases \cup { <<97, 112, 112>> }    \* and "app"

InspectMessages ==
    {CommandMessage(cmd, coll, db) :
        cmd \in InspectCommands, coll \in InspectCollections, db \in InspectDatabases}
    \cup {<<>>, GetMoreOplog, ReplyOk, LegacyQuery}
    \cup MalformedMessages

InspectInit ==
    /\ prog = "inspect"
    /\ pc = "ready"
    /\ data \in InspectMessages
    /\ pos = 0
    /\ rdClosed = FALSE
    /\ retPkt = <<>>
    /\ retErr = NilErr
    /\ got = <<>>
    /\ NoSet
    /\ NoFilter
    /\ NoReplay

\* The functions of the inspector applied to the message.
Inspect ==
    /\ prog = "inspect"
    /\ pc = "ready"
    /\ pc' = "done"
    /\ retPkt' = << [request |-> IsRequest(data),
                     cmd |-> ExtractCommandName(data),
                     db |-> ExtractDatabase(data),
                     coll |-> ExtractCollection(data),
                     likely |-> IsLikelyUserOperation(data)] >>
    /\ UNCHANGED <<prog, data, pos, retErr, got>>
    /\ UNCHANGED <<setVars, filterVars, replayVars>>

InspectNext == Inspect

SpecInspect == InspectInit /\ [][InspectNext]_vars

-----------------------------------------------------------------------------
(* The cleaning of a command document (pkg/sender/command.go).

   A decoded document is a function from its keys to values; a value is a
   record with the Go type the decoder gave it: a scalar, a nested document as
   a bson.M or as a bson.D (a bson.D is kept as the function of its elements),
   or a bson.A with its items. *)

internalFields ==
    {"$clusterTime", "$db", "$readPreference", "lsid", "txnNumber", "autocommit",
     "startTransaction", "readConcern", "writeConcern"}

RECURSIVE cleanInternalFields(_)
RECURSIVE cleanInternalFieldsArray(_)

\* a cleaning that takes the operator $set for an internal field
cleanInternalFieldsAndOperators(doc) ==
    [key \in DOMAIN doc \ (internalFields \cup {"$set"}) |->
        LET value == doc[key] IN
        IF value.type = "bson.M"
        THEN [value EXCEPT !.doc = cleanInternalFields(value.doc)]
        ELSE IF value.type = "bson.A"
        THEN [value EXCEPT !.items = cleanInternalFieldsArray(value.items)]
        ELSE value]

\* a cleaning that removes one internal field of a document at a time
cleanInternalFieldsOneAtATime(doc) ==
    LET found == DOMAIN doc \cap internalFields
        gone  == IF found = {} THEN {}
                 ELSE {CHOOSE key \in found : \A other \in found : other = key \/ key # "$db"}
    IN  [key \in DOMAIN doc \ gone |->
            LET value == doc[key] IN
            IF value.type = "bson.M"
            THEN [value EXCEPT !.doc = cleanInternalFields(value.doc)]
            ELSE IF value.type = "bson.A"
            THEN [value EXCEPT !.items = cleanInternalFieldsArray(value.items)]
            ELSE value]

cleanInternalFields(doc) ==
    [key \in DOMAIN doc \ internalFields |->
        LET value == doc[key] IN
        IF value.type = "bson.M"
        THEN [value EXCEPT !.doc = cleanInternalFields(value.doc)]
        ELSE IF value.type = "bson.A"
        THEN [value EXCEPT !.items = cleanInternalFieldsArray(value.items)]
        ELSE value]

cleanInternalFieldsArray(arr) ==
    [i \in 1..Len(arr) |->
        LET item == arr[i] IN
        IF item.type = "bson.M"
        THEN [item EXCEPT !.doc = cleanInternalFields(item.doc)]
        ELSE IF item.type = "bson.A"
        THEN [item EXCEPT !.items = cleanInternalFieldsArray(item.items)]
        ELSE item]

\* the deepest nesting of the documents given to the cleaning
MaxDepth == 2

Scalar == [type |-> "string", doc |-> <<>>, items |-> <<>>]

\* What bson.Unmarshal can give for a value nested d deep at most: a scalar,
\* a document with a user field, with an internal field, or with an operator
\* and an internal field, as a bson.M or a bson.D, or an array of one item.
RECURSIVE DecodedValues(_)
DecodedValues(d) ==
    IF d = 0 THEN {Scalar}
    ELSE LET below == DecodedValues(d - 1)
             docs  == {[k \in {"name"} |-> v] : v \in below}
                      \cup {[k \in {"lsid"} |-> v] : v \in below}
                      \cup {[k \in {"$set", "writeConcern"} |->
                                IF k = "$set" THEN v ELSE Scalar] : v \in below}
         IN  {Scalar}
             \cup {[type |-> t, doc |-> doc, items |-> <<>>] :
                   t \in {"bson.M", "bson.D"}, doc \in docs}
             \cup {[type |-> "bson.A", doc |-> <<>>, items |-> <<v>>] : v \in below}

\* the documents of a find command as decoded: with and without a session
DecodedDocuments ==
    {[k \in {"find", "$db", "filter"} \cup session |->
         IF k = "filter" THEN v
         ELSE IF k = "lsid"
         THEN [type |-> "bson.M", doc |-> [i \in {"id"} |-> Scalar], items |-> <<>>]
         ELSE Scalar] :
     v \in DecodedValues(MaxDepth), session \in {{}, {"lsid"}}}

CleanInit ==
    /\ prog = "clean"
    /\ pc = "ready"
    /\ data \in DecodedDocuments
    /\ pos = 0
    /\ rdClosed = FALSE
    /\ retPkt = <<>>
    /\ retErr = NilErr
    /\ got = <<>>
    /\ NoSet
    /\ NoFilter
    /\ NoReplay

\* ExtractCommand after bson.Unmarshal: the document of the command
Clean ==
    /\ prog = "clean"
    /\ pc = "ready"
    /\ pc' = "done"
    /\ retPkt' = <<cleanInternalFields(data)>>
    /\ UNCHANGED <<prog, data, pos, retErr, got>>
    /\ UNCHANGED <<setVars, filterVars, replayVars>>

CleanNext == Clean

SpecClean == CleanInit /\ [][CleanNext]_vars

-----------------------------------------------------------------------------
(* A replay that is interrupted from outside (cmd/replay).

   The loops run under context.Background() and the program installs no signal
   handler, so an interrupt ends the process where it stands.  To show where
   that is, a turn of the loop is taken in three steps here: the packet is read
   and tested, the timing logic sleeps, and the send returns; the counters, the
   clock and the log change when the send returns. *)

\* The loop reads a packet; a packet that is skipped, the limit and the end of
\* the recording are dealt with at once, any other packet goes to the timing
\* logic.
BeginTurn ==
    /\ prog = "replay"
    /\ pc = "loop"
    /\ LET r == ReaderNext(data, pos, rdClosed) IN
       /\ pos' = r.pos
       /\ retPkt' = r.packet
       /\ retErr' = r.err
       /\ got' = got \o r.packet
       /\ IF r.err # NilErr
          THEN /\ pc' = "exited"
               /\ exitCode' = IF r.err = EOF THEN ExitCode(counts.failedOps) ELSE 1
               /\ UNCHANGED <<counts, lastOffset, firstOp, now, wire, log>>
          ELSE \E o \in Turn(r.packet[1]) :
               IF o.kind \in {"skipped", "limit"}
               THEN /\ counts' = o.counts
                    /\ pc' = IF Breaks(o.kind) THEN "exited" ELSE "loop"
                    /\ exitCode' = IF Breaks(o.kind) THEN ExitCode(o.counts.failedOps)
                                   ELSE exitCode
                    /\ UNCHANGED <<lastOffset, firstOp, now, wire, log>>
               ELSE /\ pc' = "sleeping"
                    /\ UNCHANGED <<counts, lastOffset, firstOp, now, exitCode, wire, log>>
    /\ UNCHANGED <<prog, data, rdClosed, opts>>
    /\ UNCHANGED <<dir, files, fileIdx, current, rsClosed>>
    /\ UNCHANGED filterVars

\* time.Sleep returns, or there was nothing to sleep: the send begins
Wake ==
    /\ prog = "replay"
    /\ pc = "sleeping"
    /\ pc' = "sending"
    /\ UNCHANGED <<prog, readerVars, setVars, filterVars, replayVars>>

\* The send returns, and the turn ends as it does in the loop.
Complete ==
    /\ prog = "replay"
    /\ pc = "sending"
    /\ \E o \in Turn(retPkt[1]) :
        /\ counts' = o.counts
        /\ lastOffset' = o.lastOffset
        /\ firstOp' = o.firstOp
        /\ now' = o.now
        /\ wire' = o.wire
        /\ log' = o.log
    /\ pc' = "loop"
    /\ UNCHANGED <<prog, readerVars, setVars, filterVars, opts, exitCode>>

\* An interrupt ends the process with status 2: during a sleep, and during a
\* send, of whose message the connection then has a part, or nothing.
Interrupt ==
    /\ prog = "replay"
    /\ pc \in {"connect", "loop", "sleeping", "sending"}
    /\ pc' = "killed"
    /\ exitCode' = 2
    /\ IF pc = "sending" /\ opts.mode = "raw" /\ ~opts.dryRun
       THEN \E n \in {0, 16} : wire' = wire \o <<SubSeq(retPkt[1].Message, 1, n)>>
       ELSE wire' = wire
    /\ UNCHANGED <<prog, readerVars, setVars, filterVars>>
    /\ UNCHANGED <<opts, counts, lastOffset, firstOp, now, log>>

InterruptedNext == ReplayConnect \/ BeginTurn \/ Wake \/ Complete \/ Interrupt

SpecInterrupted == ReplayInit /\ [][InterruptedNext]_vars

-----------------------------------------------------------------------------
(* The script generator (cmd/script-gen): find commands.

   The statement emitted is kept as the chain of its calls, each with the
   value it prints as its argument. *)

\* a nested document of the command as a bson.M
M(doc) == [type |-> "bson.M", doc |-> doc, items |-> <<>>]

\* generateFind: its error, and the calls of the statement it returns
generateFind(doc) ==
    IF ~("find" \in DOMAIN doc /\ doc["find"].type = "string")
    THEN [err |-> Errorf("missing collection name", NilErr), calls |-> <<>>]
    ELSE LET filter == IF "filter" \in DOMAIN doc THEN doc["filter"] ELSE M(<<>>)
             find   == [fn |-> "find", arg |-> filter]
             present(key) ==
                 /\ key \in DOMAIN doc
                 /\ doc[key].type = "bson.M"
                 /\ DOMAIN doc[key].doc # {}
         IN  IF present("projection")
             THEN [err |-> NilErr,
                   calls |-> <<find, [fn |-> "project", arg |-> doc["projection"]]>>]
             ELSE IF present("sort")
             THEN [err |-> NilErr,
                   calls |-> <<find, [fn |-> "sort", arg |-> doc["sort"]]>>]
             ELSE IF "limit" \in DOMAIN doc
             THEN [err |-> NilErr,
                   calls |-> <<find, [fn |-> "limit", arg |-> doc["limit"]]>>]
             ELSE [err |-> NilErr, calls |-> <<find>>]

\* the find commands given to the generator: each modifier absent, empty or
\* given, the collection a string or missing
FindCommands ==
    {[k \in keys \cup {"$db"} |->
         IF k \in {"find", "$db"} THEN Scalar
         ELSE IF k = "limit" THEN [type |-> "int32", doc |-> <<>>, items |-> <<>>]
         ELSE IF k \in empty THEN M(<<>>)
         ELSE M([f \in {"name"} |-> Scalar])] :
     keys \in SUBSET {"find", "filter", "projection", "sort", "limit"},
     empty \in SUBSET {"projection", "sort"}}

ScriptInit ==
    /\ prog = "script-gen"
    /\ pc = "ready"
    /\ data \in FindCommands
    /\ pos = 0
    /\ rdClosed = FALSE
    /\ retPkt = <<>>
    /\ retErr = NilErr
    /\ got = <<>>
    /\ NoSet
    /\ NoFilter
    /\ NoReplay

\* generateScript for a find command
GenerateScript ==
    /\ prog = "script-gen"
    /\ pc = "ready"
    /\ pc' = "done"
    /\ retPkt' = <<generateFind(data).calls>>
    /\ retErr' = generateFind(data).err
    /\ UNCHANGED <<prog, data, pos, got>>
    /\ UNCHANGED <<setVars, filterVars, replayVars>>

ScriptNext == GenerateScript

SpecScript == ScriptInit /\ [][ScriptNext]_vars

-----------------------------------------------------------------------------
(* Claims about the decoder. *)

\* The unread bytes of the source are a frame of a sound recording cut short:
\* at least one byte of it, and not all of it.
EndsMidFrame(d, p) ==
    /\ p < Len(d)
    /\ \E f \in SoundFrames :
        /\ Len(d) - p < Len(f)
        /\ SubSeq(d, p + 1, Len(d)) = SubSeq(f, 1, Len(d) - p)

\* C8: ReadPacket returns io.EOF only when called with no byte left, and for
\* a source that ends inside a frame it returns an error other than io.EOF
\* and no packet.
C8_EofOnlyAtFrameBoundary ==
    [][ /\ (retErr' = EOF => pos = Len(data))
        /\ (EndsMidFrame(data, pos) =>
                retErr' # NilErr /\ retErr' # EOF /\ retPkt' = <<>>) ]_vars

\* A frame cut inside its session id, after a whole packet: the read that
\* fails finds no byte at all and wraps io.EOF.
C8_Witness ==
    /\ prog = "decode"
    /\ Len(got) >= 1
    /\ retErr = Errorf("failed to read session ID", EOF)
    /\ retPkt = <<>>

\* The unread bytes begin with the whole header of a frame whose declared
\* size is below 29 or below the length of that header.
UnderDeclared(d, p) ==
    \E s \in DeclaredSizes, m \in DecodeMetas :
        /\ s < 29 \/ s < HeaderBytes(m)
        /\ Len(d) - p >= HeaderBytes(m)
        /\ SubSeq(d, p + 1, p + HeaderBytes(m))
             = SubSeq(FrameBytes(s, 1, m, 5, 2, <<>>), 1, HeaderBytes(m))

\* C9: a returned packet has size >= 29 and size = 4 + 8 + (len(metadata) + 1)
\* + 8 + 8 + len(message); a frame declaring less than 29 or less than its
\* header is rejected with an error and no packet.
C9_SizeAccounting ==
    [][ /\ \A i \in 1..Len(retPkt') :
            /\ retPkt'[i].Size >= 29
            /\ retPkt'[i].Size = 4 + 8 + (Len(retPkt'[i].SessionMetadata) + 1)
                                   + 8 + 8 + Len(retPkt'[i].Message)
        /\ (UnderDeclared(data, pos) => retPkt' = <<>> /\ retErr' # NilErr) ]_vars

\* A frame declaring 30 bytes with a 31-byte header, read after a whole packet.
C9_Witness ==
    /\ prog = "decode"
    /\ Len(got) >= 1
    /\ got[1].Size = HeaderBytes(got[1].SessionMetadata) + Len(got[1].Message)
    /\ retErr = Errorf("invalid message size", NilErr)
    /\ retPkt = <<>>

-----------------------------------------------------------------------------
(* Claims about the RecordingSet. *)

IsPrefix(a, b) == Len(a) <= Len(b) /\ a = SubSeq(b, 1, Len(a))

\* The recordings of FileNames in lexicographic order of their names:
\* "1.bin" < "10.bin" < "2.bin", as '.' sorts before '0'.
RecordingsInOrder == <<1, 2, 3>>

\* The whole frames stored in file number f of the directory.
StoredCount(f) ==
    CHOOSE n \in 0..MaxFrames :
        \E cut \in TailCuts : dir[FileNames[f]] = StoredFile(f, n, cut)

RECURSIVE StreamsOf(_)
StreamsOf(fs) ==
    IF fs = <<>> THEN <<>>
    ELSE (IF FileNames[fs[1]] \in DOMAIN dir
          THEN [k \in 1..StoredCount(fs[1]) |-> StoredPacket(fs[1], k)]
          ELSE <<>>) \o StreamsOf(Tail(fs))

-----------------------------------------------------------------------------
(* Claims about the filter. *)

\* the packets of a byte sequence, decoded until ReadPacket reports an error
RECURSIVE DecodeAll(_, _)
DecodeAll(d, p) ==
    LET r == ReadPacket(d, p) IN
    IF r.err # NilErr THEN [packets |-> <<>>, err |-> r.err]
    ELSE LET rest == DecodeAll(d, r.pos)
         IN  [packets |-> r.packet \o rest.packets, err |-> rest.err]

\* a is b with some elements left out
RECURSIVE IsSubsequence(_, _)
IsSubsequence(a, b) ==
    IF a = <<>> THEN TRUE
    ELSE IF b = <<>> THEN FALSE
    ELSE IF a[1] = b[1] THEN IsSubsequence(Tail(a), Tail(b))
    ELSE IsSubsequence(a, Tail(b))

Written == DecodeAll(output, 0)

\* C1: the output file of the filter is a sequence of whole frames, and the
\* packets in it are a subsequence of the packets the filter has read: each is
\* an input packet with every field unchanged, none is written twice (the
\* input packets differ in their order field), and the input order is kept.
C1_OutputIsSubsequence ==
    prog = "filter" =>
        /\ Written.err = EOF
        /\ IsSubsequence(Written.packets, got)
        /\ Len(Written.packets) = stats.outputPackets

\* the first packet was dropped and the second written, or both were written
C1_Witness ==
    /\ prog = "filter"
    /\ pc = "done"
    /\ Len(got) = 2
    /\ got[1].Offset > got[2].Offset
    /\ \/ Written.packets = <<got[2]>>
       \/ Written.packets = got

\* the clauses of the filter on a packet
Passes(p, cfg) ==
    /\ cfg.minOffset = 0 \/ p.Offset >= cfg.minOffset
    /\ cfg.maxOffset = 0 \/ p.Offset <= cfg.maxOffset
    /\ cfg.requestsOnly => (Len(p.Message) = 0 \/ IsRequest(p.Message))
    /\ cfg.userOpsOnly => (Len(p.Message) > 0 /\ IsUserOperation(p.Message))
    /\ cfg.userOpsOnlySmart => (Len(p.Message) > 0 /\ IsLikelyUserOperation(p.Message))
    /\ cfg.excludeInternal => ~IsInternalOperation(p.Message)
    /\ cfg.includeCommands # <<>> =>
            \E i \in DOMAIN cfg.includeCommands :
                cfg.includeCommands[i] = ExtractCommandName(p.Message)
    /\ cfg.excludeCommands # <<>> =>
            \A i \in DOMAIN cfg.excludeCommands :
                cfg.excludeCommands[i] # ExtractCommandName(p.Message)

\* C2: a turn of the filter loop that reads a packet writes it to the output
\* if and only if every enabled clause holds for it; a packet that is not
\* written leaves the output as it was.
C2_WrittenIffPasses ==
    [][(prog = "filter" /\ retPkt' # <<>>) =>
            IF Passes(retPkt'[1], config)
            THEN output' = output \o WritePacket(retPkt'[1])
            ELSE output' = output]_vars

\* a packet at the lower end of the time range was written and a packet
\* below it was dropped, with another clause enabled
C2_Witness ==
    /\ prog = "filter"
    /\ config.minOffset = 2
    /\ config.requestsOnly
    /\ Len(got) = 2
    /\ got[1].Offset = 2
    /\ stats.droppedByTime = 1
    /\ stats.outputPackets = 1

-----------------------------------------------------------------------------
(* Claims about the replay. *)

\* the time at which the absolute baseline has the i-th attempted operation sent
Target(i) ==
    log[1].at + ((log[i].offset - log[1].offset) * opts.speed[2]) \div opts.speed[1]

\* C3: with speed > 0 every operation is dispatched at its target time
\* T_start + (offset - first_offset) / speed, or as soon as the loop is ready
\* for it when that time has passed: the times of earlier sends do not add up.
C3_AbsoluteBaseline ==
    (prog = "replay" /\ opts.speed[1] > 0) =>
        \A i \in DOMAIN log :
            log[i].at = IF log[i].ready > Target(i) THEN log[i].ready ELSE Target(i)

C5_ExitStatus ==
    (prog = "replay" /\ pc = "exited" /\ retErr = EOF) =>
        /\ exitCode \in {0, 1}
        /\ exitCode = 0 <=> (\A i \in DOMAIN log : log[i].recorded # "failed")
        /\ exitCode = 0 <=> counts.failedOps = 0

\* a run that read to the end with one success and one failure exits with 1
C5_Witness ==
    /\ prog = "replay"
    /\ pc = "exited"
    /\ retErr = EOF
    /\ counts.successfulOps = 1
    /\ counts.failedOps = 1
    /\ exitCode = 1

\* C6: every message given to a connection in raw mode has opcode OP_MSG or
\* OP_COMPRESSED.
C6_OnlyMsgAndCompressedWritten ==
    (prog = "replay" /\ opts.mode = "raw") =>
        \A i \in DOMAIN wire : ReadHeader(wire[i]).opcode \in {OpMsg, OpCompressed}

\* the ok field of a response document is the number 1
OkIsOne(doc) ==
    /\ "ok" \in DOMAIN doc
    /\ doc.ok.type \in {"int", "int32", "int64", "float64"}
    /\ doc.ok.v = 1

\* C7: an operation sent in command mode is recorded as successful if and
\* only if the driver gave a response document whose ok field equals 1.
C7_SuccessIffOkIsOne ==
    (prog = "replay" /\ opts.mode = "command") =>
        \A i \in DOMAIN log :
            log[i].sent =>
                (log[i].recorded = "success" <=>
                    (log[i].reply # <<>> /\ OkIsOne(log[i].reply[1])))

-----------------------------------------------------------------------------
(* Claims about a RecordingSet with a truncated file. *)

\* the number in FileNames of a file name
FileNo(name) == CHOOSE f \in 1..Len(FileNames) : FileNames[f] = name

\* the file of that name ends in the middle of a frame
EndsInFrame(name) ==
    \E n \in 0..MaxFrames, cut \in TailCuts \ {0} :
        dir[name] = StoredFile(FileNo(name), n, cut)

\* C11: when Next has reported the error of a file that ends in the middle
\* of a frame, the following call of Next leaves that file and goes on in
\* the order of the files: it returns the first packet of the next file that
\* holds one, passing only files without a whole frame, or reports the error
\* of a truncated file on the way, or io.EOF after the last file.
C11_TruncatedFileIsLeft ==
    [][(/\ prog = "set"
        /\ ~rsClosed /\ ~rsClosed'
        /\ current = "open"
        /\ retErr \notin {NilErr, EOF}
        /\ EndsInFrame(files[fileIdx + 1])) =>
            /\ fileIdx' > fileIdx
            /\ \A i \in (fileIdx + 2)..fileIdx' : StoredCount(FileNo(files[i])) = 0
            /\ IF fileIdx' = Len(files)
               THEN retPkt' = <<>> /\ retErr' = EOF
               ELSE IF StoredCount(FileNo(files[fileIdx' + 1])) > 0
               THEN retPkt' = <<StoredPacket(FileNo(files[fileIdx' + 1]), 1)>>
               ELSE retPkt' = <<>> /\ retErr' \notin {NilErr, EOF}
                        /\ EndsInFrame(files[fileIdx' + 1])]_vars

\* Next returns the first packet of a file that follows a file with a whole
\* frame and a truncated one
C11_Witness ==
    /\ prog = "set"
    /\ fileIdx >= 1
    /\ retPkt # <<>>
    /\ retPkt[1].Order = 1
    /\ EndsInFrame(files[fileIdx])
    /\ StoredCount(FileNo(files[fileIdx])) >= 1
    /\ Len(got) >= 2

-----------------------------------------------------------------------------
(* More claims about the filter. *)

\* no predicate of the filter is enabled
AcceptAll(cfg) ==
    /\ ~cfg.requestsOnly /\ ~cfg.userOpsOnly
    /\ ~cfg.userOpsOnlySmart /\ ~cfg.excludeInternal
    /\ cfg.includeCommands = <<>> /\ cfg.excludeCommands = <<>>
    /\ cfg.minOffset = 0 /\ cfg.maxOffset = 0

\* C12: with no predicate enabled the filter has written, byte for byte, the
\* part of the input it has read, and the whole input when it has read a
\* well-formed recording to its end.
C12_AcceptAllIsIdentity ==
    (prog = "filter" /\ AcceptAll(config) /\ pc # "failed") =>
        /\ output = SubSeq(data, 1, pos)
        /\ pc = "done" => output = data

\* a recording of two frames with different messages has been copied
C12_Witness ==
    /\ prog = "filter"
    /\ AcceptAll(config)
    /\ pc = "done"
    /\ Len(got) = 2
    /\ got[1].Message # <<>>
    /\ got[2].Message # got[1].Message
    /\ output = data

-----------------------------------------------------------------------------
(* Claims about the classifier. *)

\* C13: for a command of the likely-user set the smart check is false if the
\* database of the packet is internal or its collection is internal, and
\* true otherwise.
C13_LikelyUserByContext ==
    (prog = "inspect" /\ pc = "done" /\ retPkt[1].cmd \in likelyUserOps) =>
        (retPkt[1].likely <=>
            ~(IsInternalDatabase(retPkt[1].db) \/ IsInternalCollection(retPkt[1].coll)))

\* the packet is a getMore on local.oplog.rs, the collection being the value
\* of the command field or of the field "collection"
OplogGetMore(p) ==
    /\ ExtractCommandName(p.Message) = GetMore
    /\ ExtractDatabase(p.Message) = Local
    /\ \/ ExtractCollection(p.Message) = OplogRs
       \/ p.Message = GetMoreOplog

\* C14: the smart check is false for every getMore on local.oplog.rs the
\* filter has read, and a run with user-ops-smart has written none of them.
C14_OplogGetMoreIsInternal ==
    prog = "filter" =>
        \A i \in DOMAIN got :
            OplogGetMore(got[i]) =>
                /\ ~IsLikelyUserOperation(got[i].Message)
                /\ config.userOpsOnlySmart =>
                        \A j \in DOMAIN Written.packets : Written.packets[j] # got[i]

\* a run with user-ops-smart and no other predicate has read both kinds of
\* getMore on the oplog and written the insert that came with one of them
C14_Witness ==
    /\ prog = "filter"
    /\ pc = "done"
    /\ config.userOpsOnlySmart
    /\ ~config.userOpsOnly /\ ~config.excludeInternal /\ ~config.requestsOnly
    /\ config.includeCommands = <<>> /\ config.minOffset = 0 /\ config.maxOffset = 0
    /\ Len(got) = 2
    /\ got[1].Message = GetMoreNamed
    /\ got[2].Message = GetMoreOplog
    /\ stats.droppedInternal = 2

\* requests-only is on, both user-ops flags are off, and the turn reads a
\* packet with an empty message
ReadsEmptyUnderRequestsOnly ==
    /\ prog = "filter"
    /\ config.requestsOnly /\ ~config.userOpsOnly /\ ~config.userOpsOnlySmart
    /\ retPkt' # <<>>
    /\ retPkt'[1].Message = <<>>

\* C15 as stated: with requests-only on and both user-ops flags off every
\* packet with an empty message that is read is written.
C15_EmptyAlwaysPreserved ==
    [][ReadsEmptyUnderRequestsOnly =>
            output' = output \o WritePacket(retPkt'[1])]_vars

\* C15, amended: with requests-only on and both user-ops flags off a packet
\* with an empty message is written if it lies in the time range and the
\* command lists admit the empty command name, and is dropped otherwise.
C15_EmptyPreservedByRequestsOnly ==
    [][ReadsEmptyUnderRequestsOnly =>
            IF /\ config.minOffset = 0 \/ retPkt'[1].Offset >= config.minOffset
               /\ config.maxOffset = 0 \/ retPkt'[1].Offset <= config.maxOffset
               /\ config.includeCommands = <<>> \/ InList(<<>>, config.includeCommands)
               /\ ~InList(<<>>, config.excludeCommands)
            THEN output' = output \o WritePacket(retPkt'[1])
            ELSE output' = output]_vars

\* requests-only alone has kept an empty packet and dropped a response
C15_Witness ==
    /\ prog = "filter"
    /\ pc = "done"
    /\ config.requestsOnly /\ ~config.userOpsOnly /\ ~config.userOpsOnlySmart
    /\ Len(got) = 2
    /\ got[1].Message = <<>>
    /\ got[2].Message = ReplyOk
    /\ Written.packets = <<got[1]>>
    /\ stats.droppedResponses = 1

\* C16: every dropped packet is counted in the tally of its reason, so the
\* packets read are the packets written plus the sum of the tallies (the
\* statistics have four tallies; there is none for empty-message).
C16_InputIsOutputPlusTallies ==
    prog = "filter" =>
        stats.inputPackets =
            stats.outputPackets + stats.droppedResponses + stats.droppedInternal
                + stats.droppedByCommand + stats.droppedByTime

-----------------------------------------------------------------------------
(* Claims about the limit and the pacing of a replay. *)

\* C17: with a limit L > 0 the operations recorded as successful or failed
\* never number more than L, and nothing is attempted or written once L
\* operations have been attempted.
C17_LimitBoundsAttempts ==
    (prog = "replay" /\ opts.limit > 0) =>
        /\ counts.successfulOps + counts.failedOps <= opts.limit
        /\ Len(log) <= opts.limit
        /\ Len(wire) <= opts.limit

\* the limit stopped a run in front of a second packet that would have been
\* sent: two packets read, none skipped, one operation attempted
C17_Witness ==
    /\ prog = "replay"
    /\ pc = "exited"
    /\ opts.limit = 1
    /\ retErr = NilErr
    /\ counts.totalPackets = 2
    /\ counts.skippedPackets = 0
    /\ counts.successfulOps + counts.failedOps = 1
    /\ Len(log) = 1

\* C18: with speed > 0 a packet whose offset is smaller than the offset of the
\* packet sent before it is sent without sleeping.
C18_NegativeDeltaNeverSleeps ==
    (prog = "replay" /\ opts.speed[1] > 0) =>
        \A i \in 2..Len(log) :
            log[i].offset < log[i - 1].offset => log[i].at = log[i].ready

\* C19: at speed 0 the loop never sleeps: every operation is attempted at the
\* moment the loop is ready for it.
C19_ZeroSpeedNeverSleeps ==
    (prog = "replay" /\ opts.speed[1] = 0) =>
        \A i \in DOMAIN log : log[i].at = log[i].ready

\* a run at speed 0 has sent two packets recorded some time apart, the second
\* one after the first send took its time
C19_Witness ==
    /\ prog = "replay"
    /\ pc = "exited"
    /\ opts.speed[1] = 0
    /\ ~opts.dryRun
    /\ Len(log) = 2
    /\ log[1].offset < log[2].offset
    /\ log[2].ready > 0
    /\ log[2].at = log[2].ready

-----------------------------------------------------------------------------
(* Claims about the cleaned command document. *)

\* an internal field is a key of the document or of a document inside it
RECURSIVE HasInternalField(_)
RECURSIVE HasInternalFieldIn(_)

HasInternalField(doc) ==
    \/ DOMAIN doc \cap internalFields # {}
    \/ \E key \in DOMAIN doc : HasInternalFieldIn(doc[key])

HasInternalFieldIn(value) ==
    IF value.type \in {"bson.M", "bson.D"} THEN HasInternalField(value.doc)
    ELSE IF value.type = "bson.A"
    THEN \E i \in 1..Len(value.items) : HasInternalFieldIn(value.items[i])
    ELSE FALSE

\* C20: the document of an extracted command has none of the internal fields
\* as a key at any depth, inside nested documents and inside documents in
\* arrays.
C20_NoInternalFieldAtAnyDepth ==
    (prog = "clean" /\ pc = "done") => ~HasInternalField(retPkt[1])

\* every key of the document that is not an internal field is a key of the
\* result, no key is new, scalars are unchanged, arrays keep their length and
\* order, and the same holds inside
RECURSIVE KeepsOthers(_, _)
RECURSIVE KeepsOthersIn(_, _)

KeepsOthers(doc, cleaned) ==
    /\ DOMAIN doc \ internalFields \subseteq DOMAIN cleaned
    /\ DOMAIN cleaned \subseteq DOMAIN doc
    /\ \A key \in DOMAIN doc \ internalFields : KeepsOthersIn(doc[key], cleaned[key])

KeepsOthersIn(value, cleaned) ==
    /\ cleaned.type = value.type
    /\ IF value.type \in {"bson.M", "bson.D"} THEN KeepsOthers(value.doc, cleaned.doc)
       ELSE IF value.type = "bson.A"
       THEN /\ Len(cleaned.items) = Len(value.items)
            /\ \A i \in 1..Len(value.items) : KeepsOthersIn(value.items[i], cleaned.items[i])
       ELSE cleaned = value

\* C21: the cleaning removes nothing but internal fields: every other key,
\* the operators included, stays where it was with its value, and every array
\* keeps its length and order.
C21_OnlyInternalFieldsRemoved ==
    (prog = "clean" /\ pc = "done") => KeepsOthers(data, retPkt[1])

\* a nested document lost its writeConcern and kept its $set with the array
\* in it
C21_Witness ==
    /\ prog = "clean"
    /\ pc = "done"
    /\ data["filter"].type = "bson.M"
    /\ DOMAIN data["filter"].doc = {"$set", "writeConcern"}
    /\ data["filter"].doc["$set"].type = "bson.A"
    /\ DOMAIN retPkt[1]["filter"].doc = {"$set"}
    /\ retPkt[1]["filter"].doc["$set"] = data["filter"].doc["$set"]

\* C22: the cleaning is idempotent: cleaning a cleaned document gives the
\* same document.
C22_CleaningIsIdempotent ==
    (prog = "clean" /\ pc = "done") => cleanInternalFields(retPkt[1]) = retPkt[1]

\* the cleaning removed fields at the top and inside a document of an array
C22_Witness ==
    /\ prog = "clean"
    /\ pc = "done"
    /\ "lsid" \in DOMAIN data
    /\ data["filter"].type = "bson.A"
    /\ data["filter"].items[1].type = "bson.M"
    /\ "lsid" \in DOMAIN data["filter"].items[1].doc
    /\ DOMAIN retPkt[1] = {"find", "filter"}
    /\ retPkt[1]["filter"].items[1].doc = <<>>

-----------------------------------------------------------------------------
(* Claims about an interrupted replay. *)

\* C23: when a replay is cancelled from outside a send in flight is allowed
\* to complete: a send that has begun ends with its operation recorded and
\* its whole message written; and once the replay is cancelled nothing more
\* is sent.
C23_CancellationIsHonoured ==
    /\ [][(prog = "replay" /\ pc = "sending") =>
            /\ Len(log') = Len(log) + 1
            /\ counts'.successfulOps + counts'.failedOps
                   = counts.successfulOps + counts.failedOps + 1
            /\ \A i \in DOMAIN wire' : wire'[i] \in {got[j].Message : j \in DOMAIN got}]_vars
    /\ [][(prog = "replay" /\ pc = "killed") => (wire' = wire /\ log' = log)]_vars

-----------------------------------------------------------------------------
(* Claims about the inspector on malformed messages. *)

\* C24: for every message ExtractDatabase and ExtractCollection return a
\* string, the empty one when the extraction fails; they never fault.
C24_ExtractionNeverFaults ==
    (prog = "inspect" /\ pc = "done") =>
        (retPkt[1].db # Panic /\ retPkt[1].coll # Panic)

-----------------------------------------------------------------------------
(* Claims about the script generator. *)

\* C25: the statement emitted for a find command is find(filter) chained with
\* project, sort and limit, each of them when the command has it.
C25_FindModifiersEmitted ==
    (prog = "script-gen" /\ pc = "done" /\ retErr = NilErr) =>
        /\ retPkt[1][1].fn = "find"
        /\ \A key \in {"projection", "sort"} :
               (key \in DOMAIN data /\ DOMAIN data[key].doc # {}) =>
                   \E i \in DOMAIN retPkt[1] :
                       /\ retPkt[1][i].fn = (IF key = "sort" THEN "sort" ELSE "project")
                       /\ retPkt[1][i].arg = data[key]
        /\ "limit" \in DOMAIN data =>
               \E i \in DOMAIN retPkt[1] :
                   retPkt[1][i].fn = "limit" /\ retPkt[1][i].arg = data["limit"]

-----------------------------------------------------------------------------
(* More claims about the recording set. *)

\* the open set leaves its current file in this step
LeavesFile == prog = "set" /\ ~rsClosed /\ current = "open" /\ fileIdx' # fileIdx

\* C26 as stated: the set leaves a file only when its reader is at the end
\* of the file and that end is the end of a frame.
C26_LeavesOnlyAtFrameBoundary ==
    [][LeavesFile =>
         /\ pos = Len(data)
         /\ ~EndsInFrame(files[fileIdx + 1])]_vars

\* C26: the set leaves a file only in a call in which the reader of that
\* file reports io.EOF with every byte of the file read; a call in which the
\* reader reports another error, or one made with bytes still unread, stays
\* in the file.
C26_LeavesOnlyAtEndOfFile ==
    /\ [][LeavesFile =>
            /\ data = dir[files[fileIdx + 1]]
            /\ pos = Len(data)
            /\ ReaderNext(data, pos, rdClosed).err = EOF]_vars
    /\ [][(/\ prog = "set" /\ ~rsClosed /\ ~rsClosed' /\ current = "open"
           /\ \/ pos < Len(data)
              \/ ReaderNext(data, pos, rdClosed).err \notin {NilErr, EOF}) =>
               (fileIdx' = fileIdx /\ current' = "open")]_vars

\* Next has returned the first packet of a file after a file of whole frames
C26_Witness ==
    /\ prog = "set"
    /\ fileIdx >= 1
    /\ current = "open"
    /\ retErr = NilErr
    /\ retPkt # <<>>
    /\ retPkt[1].Order = 1
    /\ ~EndsInFrame(files[fileIdx])
    /\ StoredCount(FileNo(files[fileIdx])) >= 1

-----------------------------------------------------------------------------
(* More claims about the decoder. *)

TenKiB == 10 * 2 ^ 10

\* the number of bytes of session metadata at the head of a byte source
MetadataLength(d) ==
    LET stops == {i \in (4 + 8 + 1)..Len(d) : d[i] = 0}
    IN  IF stops = {} THEN Len(d) - (4 + 8)
        ELSE (CHOOSE i \in stops : \A j \in stops : i <= j) - (4 + 8 + 1)

\* C27: the cap on the session metadata is at least 10 KiB: ReadPacket
\* reports metadata as too long only when it is longer than 10 240 bytes,
\* and a whole frame with at most 10 240 bytes of metadata is decoded.
C27_CapIsAtLeastTenKiB ==
    (prog = "decode" /\ pos > 0 /\ MetadataLength(data) <= TenKiB) =>
        /\ retErr # Errorf("session metadata too long (>10KB)", NilErr)
        /\ data[Len(data)] # 97 => got # <<>>

-----------------------------------------------------------------------------
(* More claims about the replay loops. *)

\* C28: a dry run in raw mode writes nothing to a connection and calls no
\* sender, and it records an operation as successful only when the message
\* of the packet passes validateWireMessage.
C28_DryRunValidates ==
    (prog = "replay" /\ opts.mode = "raw" /\ opts.dryRun) =>
        /\ wire = <<>>
        /\ \A i \in DOMAIN log :
            /\ ~log[i].sent
            /\ log[i].recorded = "success" =>
                   \A j \in DOMAIN got :
                       got[j].Offset = log[i].offset =>
                           validateWireMessage(got[j].Message) = NilErr

\* C29: when a run ends with the summary, after io.EOF or at the limit, the
\* packets read are the packets skipped and the operations recorded as
\* successful or failed.
C29_SummaryAddsUp ==
    (prog = "replay" /\ pc = "exited" /\ retErr \in {NilErr, EOF}) =>
        counts.totalPackets
            = counts.skippedPackets + counts.successfulOps + counts.failedOps

-----------------------------------------------------------------------------
(* The terminal states of the recording set. *)

=============================================================================
